---- MODULE Spec2Model ----
(***************************************************************************)
(* Model of the day10 Machine solvers, parser and drivers                  *)
(* (src/day10/src/main.rs), of day2's is_invalid_value, day3's max_num     *)
(* functions, day1's part2 dial, day4's part2 removal loop and day8's      *)
(* add_pair_to_circuits (src/day<N>/src/main.rs).                          *)
(*                                                                         *)
(* A Machine is the triple lights / buttons / joltage.  Positions keep the *)
(* 0-based numbering of the source; a Vec v is a sequence and v[i] of the  *)
(* source is v[i + 1] here.  Buttons are numbered 1..Len(buttons).         *)
(* Option<usize> is a sequence: None is << >> and Some(v) is << v >>.      *)
(* A &str is the sequence of its characters (one-character strings).       *)
(***************************************************************************)
EXTENDS Integers, Sequences, FiniteSets, TLC

VARIABLES lights, buttons, joltage, lightResult, lightCalls, joltResult, joltBranch, joltCalls,
          input, parsed, pc, machine_index, sum, output, part1Result, part2Result, solved,
          value, min_repetitions, max_repetitions, invalidResult,
          firstButtons, firstLight, firstJolt,
          batteryBank, numDigits, iterativeMax, recursiveMax,
          number, zeroes, instruction, lines_read,
          map, initial_map, moved, rounds, reported,
          circuits, added_pairs

\* The Machine borrowed as self and the results of its solvers; lightCalls
\* and joltCalls are the histories of the recursive calls made.
solverVars == <<lights, buttons, joltage, lightResult, lightCalls, joltResult, joltBranch, joltCalls>>

\* The day10 program: input text, the Result of from_input, the position
\* in main / part1 / part2, their locals, and what has been printed.
mainVars == <<input, parsed, pc, machine_index, sum, output, part1Result, part2Result, solved>>

\* A call of day2's is_invalid_value.
day2Vars == <<value, min_repetitions, max_repetitions, invalidResult>>

\* A second run of the solvers on the same machine with its buttons in
\* another order: the button list and the results of the first run.
orderVars == <<firstButtons, firstLight, firstJolt>>

\* A call of day3's max_num_iterative and one of max_num_recursive on the
\* same bank.
day3Vars == <<batteryBank, numDigits, iterativeMax, recursiveMax>>

\* day1's part2: the dial, the count of zeroes, the instruction of the last
\* line and the number of lines read.
day1Vars == <<number, zeroes, instruction, lines_read>>

\* day4's part2: the Map, the count of rolls moved and what was printed;
\* initial_map and rounds are history.
day4Vars == <<map, initial_map, moved, rounds, reported>>

\* day8: the circuits built by add_pair_to_circuits; added_pairs is history.
day8Vars == <<circuits, added_pairs>>

\* The variables outside the day10 program and day2.
restVars == <<orderVars, day3Vars, day1Vars, day4Vars, day8Vars>>

vars == <<solverVars, mainVars, day2Vars, restVars>>

\* ------------------------------------------------------------------ bounds
MaxLights == 3
MaxLightButtons == 2
MaxPositions == 2
MaxWiring == 4
MaxJoltSum == 4
MaxSolveWiring == 3
MaxSolveSum == 2
MaxBank == 5
MaxInstructions == 2
MaxClicks == 120
MaxSide == 4
MaxEmpty == 2
MaxBoxes == 4
MaxPairs == 4

\* usize::MAX, the initial least_presses / least_position sentinel.
UsizeMax == 2147483647

\* ------------------------------------------------------------------ values
None == << >>
Some(v) == << v >>

Ok(v) == [tag |-> "Ok", value |-> v]
NoSolution == [tag |-> "NoSolution", value |-> 0]
NotCalled == [tag |-> "NotCalled", value |-> 0]

\* A function over 1..n as the sequence (Vec) of its values.
Vec(f) == << >> \o f

\* vec![false; n] and vec![0; n]
AllOff(n) == Vec([i \in 1..n |-> FALSE])
Zeros(n) == Vec([i \in 1..n |-> 0])

\* Number of times position pos occurs in a button (Vec<usize>).
Occurrences(button, pos) == Cardinality({k \in DOMAIN button : button[k] = pos})

\* ------------------------------------------------- inputs (bounded machines)
\* The strictly increasing index list of a non-empty set of positions.
SortedSeq(S) == CHOOSE s \in [1..Cardinality(S) -> S] : \A i, j \in 1..Cardinality(S) : i < j => s[i] < s[j]

\* Buttons over n positions: in-range, duplicate-free, non-empty index lists.
ButtonsOver(n) == {SortedSeq(S) : S \in (SUBSET (0..(n - 1))) \ {{}}}

ButtonLists(n, k) == UNION {[1..m -> ButtonsOver(n)] : m \in 0..k}

RECURSIVE SumSeq(_)
SumSeq(s) == IF Len(s) = 0 THEN 0 ELSE s[Len(s)] + SumSeq(SubSeq(s, 1, Len(s) - 1))

\* Button lists over n positions that list at most w indices in total.
WiredButtonLists(n, w) == {bs \in ButtonLists(n, w) : SumSeq([k \in DOMAIN bs |-> Len(bs[k])]) <= w}

\* Joltage targets over n positions whose sum is at most total.
JoltageTargets(n, total) == {j \in [1..n -> 0..total] : SumSeq(j) <= total}

\* ------------------------------------------------------ light reachability
RECURSIVE light_up_step(_, _, _)
RECURSIVE light_up_loop(_, _, _, _, _)

\* Variant of push_button_light that switches the listed lights on instead
\* of toggling them.
push_button_light_on(button, ls) == Vec([i \in 1..Len(ls) |-> IF Occurrences(buttons[button], i - 1) > 0 THEN TRUE ELSE ls[i]])

\* Machine::push_button_light: toggles a copy, once per listed index.
push_button_light(button, ls) == Vec([i \in 1..Len(ls) |-> IF Occurrences(buttons[button], i - 1) % 2 = 1 THEN ~ls[i] ELSE ls[i]])

\* Variant of light_up_step that still searches at step = max_steps.
light_up_step_inclusive(ls, step, max_steps) ==
    IF step > max_steps
    THEN None
    ELSE light_up_loop(ls, step, 1, max_steps, FALSE)

\* Machine::light_up_step, the part before the loop.
light_up_step(ls, step, max_steps) ==
    IF step = max_steps
    THEN None
    ELSE light_up_loop(ls, step, 1, max_steps, FALSE)

\* The `for button in 0..self.buttons.len()` loop of light_up_step from
\* iteration `button` on, and the return after it.
light_up_loop(ls, step, button, updated_max_steps, have_solution) ==
    IF button > Len(buttons)
    THEN IF have_solution THEN Some(updated_max_steps) ELSE None
    ELSE LET check == push_button_light(button, ls)
         IN  IF check = lights
             THEN Some(step)
             ELSE LET r == light_up_step(check, step + 1, updated_max_steps)
                  IN  IF r # None
                      THEN light_up_loop(ls, step, button + 1, IF r[1] < updated_max_steps THEN r[1] ELSE updated_max_steps, TRUE)
                      ELSE light_up_loop(ls, step, button + 1, updated_max_steps, have_solution)

\* Variant of light_up without the early return for an all-off target.
light_up_no_early_return ==
    LET r == light_up_step(AllOff(Len(lights)), 1, Len(lights))
    IN  IF r # None THEN Ok(r[1]) ELSE NoSolution

\* Machine::light_up
light_up ==
    LET start_lights == AllOff(Len(lights))
    IN  IF start_lights = lights
        THEN Ok(0)
        ELSE LET r == light_up_step(start_lights, 1, Len(lights))
             IN  IF r # None THEN Ok(r[1]) ELSE NoSolution

RECURSIVE light_up_step_calls(_, _, _, _)
RECURSIVE light_up_loop_calls(_, _, _, _, _)

\* History of light_up_step: the calls made by light_up_step(ls, step,
\* max_steps), itself included, each with its arguments, the Option it
\* returned and the max_steps of its caller (caller_max_steps).
light_up_step_calls(ls, step, max_steps, caller_max_steps) ==
    {[lights |-> ls, step |-> step, max_steps |-> max_steps, caller_max_steps |-> caller_max_steps,
      value |-> light_up_step(ls, step, max_steps)]}
        \cup (IF step = max_steps THEN {} ELSE light_up_loop_calls(ls, step, 1, max_steps, max_steps))

\* The calls made by the loop of light_up_step(ls, step, max_steps) from
\* iteration `button` on.
light_up_loop_calls(ls, step, button, max_steps, updated_max_steps) ==
    IF button > Len(buttons)
    THEN {}
    ELSE LET check == push_button_light(button, ls)
             r == light_up_step(check, step + 1, updated_max_steps)
         IN  IF check = lights
             THEN {}
             ELSE light_up_step_calls(check, step + 1, updated_max_steps, max_steps)
                      \cup light_up_loop_calls(ls, step, button + 1, max_steps,
                               IF r # None /\ r[1] < updated_max_steps THEN r[1] ELSE updated_max_steps)

\* The calls of light_up_step made by light_up, which passes lights.len().
light_up_calls == IF AllOff(Len(lights)) = lights THEN {} ELSE light_up_step_calls(AllOff(Len(lights)), 1, Len(lights), Len(lights))

\* --------------------------------------------------------- joltage matching
\* button.contains(&pos)
Contains(button, pos) == \E k \in DOMAIN button : button[k] = pos

\* Machine::button_is_valid
button_is_valid(button, invalid_positions) == \A k \in DOMAIN button : button[k] \notin invalid_positions

\* First loop of select_buttons: the positions already at or above target.
invalid_positions_of(current_joltage) == {pos \in 0..(Len(joltage) - 1) : current_joltage[pos + 1] >= joltage[pos + 1]}

\* The filter(..).count() of select_buttons for one position.
num_buttons_at(btns, pos, invalid_positions) == Cardinality({i \in DOMAIN btns : Contains(btns[i], pos) /\ button_is_valid(btns[i], invalid_positions)})

RECURSIVE least_position_scan(_, _, _, _, _)

\* Variant of the second loop of select_buttons that keeps the last of the
\* positions with the least number of valid buttons.
least_position_scan_last(btns, invalid_positions, pos, least_num_buttons, least_position) ==
    IF pos >= Len(joltage)
    THEN least_position
    ELSE LET num_buttons == num_buttons_at(btns, pos, invalid_positions)
         IN  IF num_buttons > 0 /\ num_buttons <= least_num_buttons
             THEN least_position_scan(btns, invalid_positions, pos + 1, num_buttons, pos)
             ELSE least_position_scan(btns, invalid_positions, pos + 1, least_num_buttons, least_position)

\* Second loop of select_buttons from position pos on: the position with
\* the least positive number of valid buttons, usize::MAX when there is none.
least_position_scan(btns, invalid_positions, pos, least_num_buttons, least_position) ==
    IF pos >= Len(joltage)
    THEN least_position
    ELSE LET num_buttons == num_buttons_at(btns, pos, invalid_positions)
         IN  IF num_buttons > 0 /\ num_buttons < least_num_buttons
             THEN least_position_scan(btns, invalid_positions, pos + 1, num_buttons, pos)
             ELSE least_position_scan(btns, invalid_positions, pos + 1, least_num_buttons, least_position)

\* Variant of select_buttons that returns the whole target of the selected
\* position as the required amount, not target - current.
select_buttons_full_target(btns, current_joltage) ==
    LET invalid_positions == invalid_positions_of(current_joltage)
        least_position == least_position_scan(btns, invalid_positions, 0, UsizeMax, UsizeMax)
        Touches(b) == Contains(b, least_position)
        Misses(b) == ~Contains(b, least_position)
    IN  IF least_position = UsizeMax
        THEN [selected |-> << >>, remaining |-> btns, max_presses |-> 0, position |-> UsizeMax, assert_ok |-> TRUE]
        ELSE [selected |-> SelectSeq(btns, Touches),
              remaining |-> SelectSeq(btns, Misses),
              max_presses |-> joltage[least_position + 1],
              position |-> least_position,
              assert_ok |-> joltage[least_position + 1] > current_joltage[least_position + 1]]

\* Variant of select_buttons that hands the whole button list on as the
\* remaining buttons.
select_buttons_keep_selected(btns, current_joltage) ==
    LET invalid_positions == invalid_positions_of(current_joltage)
        least_position == least_position_scan(btns, invalid_positions, 0, UsizeMax, UsizeMax)
        Touches(b) == Contains(b, least_position)
    IN  IF least_position = UsizeMax
        THEN [selected |-> << >>, remaining |-> btns, max_presses |-> 0, position |-> UsizeMax, assert_ok |-> TRUE]
        ELSE [selected |-> SelectSeq(btns, Touches),
              remaining |-> btns,
              max_presses |-> joltage[least_position + 1] - current_joltage[least_position + 1],
              position |-> least_position,
              assert_ok |-> joltage[least_position + 1] > current_joltage[least_position + 1]]

\* Variant of select_buttons that selects only the first of the buttons
\* that contain the selected position.
select_buttons_first_only(btns, current_joltage) ==
    LET invalid_positions == invalid_positions_of(current_joltage)
        least_position == least_position_scan(btns, invalid_positions, 0, UsizeMax, UsizeMax)
        Touches(b) == Contains(b, least_position)
        Misses(b) == ~Contains(b, least_position)
    IN  IF least_position = UsizeMax
        THEN [selected |-> << >>, remaining |-> btns, max_presses |-> 0, position |-> UsizeMax, assert_ok |-> TRUE]
        ELSE [selected |-> SubSeq(SelectSeq(btns, Touches), 1, 1),
              remaining |-> SelectSeq(btns, Misses),
              max_presses |-> joltage[least_position + 1] - current_joltage[least_position + 1],
              position |-> least_position,
              assert_ok |-> joltage[least_position + 1] > current_joltage[least_position + 1]]

\* Machine::select_buttons: (selected, remaining, required amount).
\* assert_ok records the outcome of assert!(target > current).
select_buttons(btns, current_joltage) ==
    LET invalid_positions == invalid_positions_of(current_joltage)
        least_position == least_position_scan(btns, invalid_positions, 0, UsizeMax, UsizeMax)
        Touches(b) == Contains(b, least_position)
        Misses(b) == ~Contains(b, least_position)
    IN  IF least_position = UsizeMax
        THEN [selected |-> << >>, remaining |-> btns, max_presses |-> 0, position |-> UsizeMax, assert_ok |-> TRUE]
        ELSE [selected |-> SelectSeq(btns, Touches),
              remaining |-> SelectSeq(btns, Misses),
              max_presses |-> joltage[least_position + 1] - current_joltage[least_position + 1],
              position |-> least_position,
              assert_ok |-> joltage[least_position + 1] > current_joltage[least_position + 1]]

\* Variant of evaluate_joltage that does not report an overshoot.
evaluate_joltage_no_invalid(current_joltage) ==
    IF \A i \in 1..Len(joltage) : joltage[i] <= current_joltage[i] THEN "Hit" ELSE "Incomplete"

\* Machine::evaluate_joltage
evaluate_joltage(current_joltage) ==
    IF \E i \in 1..Len(joltage) : joltage[i] < current_joltage[i]
    THEN "Invalid"
    ELSE IF Cardinality({i \in 1..Len(joltage) : joltage[i] = current_joltage[i]}) = Len(joltage)
         THEN "Hit"
         ELSE "Incomplete"

\* Variant of push_button_joltage that adds only at the first listed index.
push_button_joltage_first(jolt, button, count) == Vec([i \in 1..Len(jolt) |-> IF Len(button) > 0 /\ button[1] = i - 1 THEN jolt[i] + count ELSE jolt[i]])

\* Machine::push_button_joltage: adds count once per listed index.
push_button_joltage(jolt, button, count) == Vec([i \in 1..Len(jolt) |-> jolt[i] + count * Occurrences(button, i - 1)])

RECURSIVE push_all(_, _, _, _)

\* The `for (index, pushes) in index_combination.iter().enumerate()` loop.
push_all(jolt, selected, index_combination, index) ==
    IF index > Len(index_combination)
    THEN jolt
    ELSE push_all(push_button_joltage(jolt, selected[index], index_combination[index]), selected, index_combination, index + 1)

\* combinations.iter().rposition(|&v| v != 0): the last non-zero entry
\* (1-based), 0 when every entry is zero (the unwrap would panic).
rposition_nonzero(combinations) ==
    LET nz == {i \in DOMAIN combinations : combinations[i] # 0}
    IN  IF nz = {} THEN 0 ELSE CHOOSE i \in nz : \A j \in nz : j <= i

\* Variant of next_combination that reports no further distribution.
next_combination_stops(combinations) == [more |-> FALSE, combinations |-> combinations]

\* Machine::next_combination: the bool returned and the slice afterwards.
next_combination(combinations) ==
    LET i == rposition_nonzero(combinations)
        v == combinations[i]
        carried == [combinations EXCEPT ![i - 1] = @ + 1, ![i] = 0]
    IN  IF i <= 1
        THEN [more |-> FALSE, combinations |-> combinations]
        ELSE [more |-> TRUE, combinations |-> Vec([carried EXCEPT ![Len(combinations)] = v - 1])]

\* The press counts a distribution commits, as <<button, count>> pairs.
Commit(committed, selected, index_combination) == committed \o Vec([k \in 1..Len(selected) |-> <<selected[k], index_combination[k]>>])

\* Variant of the cost check that also stops a call that only meets the
\* best total.
too_expensive_or_equal(presses, max_presses, least_presses) == presses + max_presses >= least_presses

\* The cost check of search_joltage: "more expensive than the best
\* solution we've found so far".
too_expensive(presses, max_presses, least_presses) == presses + max_presses > least_presses

\* Variant of the update of *least_presses that stores one press less than
\* the total found.
lower_least_below(least_presses, found) == IF found < least_presses THEN found - 1 ELSE least_presses

\* `if did_press < *least_presses { *least_presses = did_press; }`, and
\* the same for recursed_pressed.
lower_least(least_presses, found) == IF found < least_presses THEN found ELSE least_presses

RECURSIVE search_joltage(_, _, _, _, _)
RECURSIVE loop_iterate(_, _, _, _, _, _)
RECURSIVE loop_until_break(_, _, _, _, _, _)

\* One pass through the body of the `loop` of search_joltage.  st holds the
\* loop's variables: index_combination, best (value, and as history the
\* branch that gave it), *least_presses, and done once the loop has broken.
\* History: tried lists the distributions pushed so far, passed the
\* accumulators handed to recursive calls, calls the calls made below.
loop_body(current_joltage, sel, presses, committed, st) ==
    LET max_presses == sel.max_presses
        updated_joltage == push_all(current_joltage, sel.selected, st.index_combination, 1)
        here == Commit(committed, sel.selected, st.index_combination)
        eval == evaluate_joltage(updated_joltage)
        did_press == presses + max_presses
        rec == search_joltage(updated_joltage, sel.remaining, presses + max_presses, st.least_presses, here)
        best ==
            IF eval = "Hit"
            THEN IF st.value = None \/ did_press < st.value[1]
                 THEN [value |-> Some(did_press),
                       least_presses |-> lower_least(st.least_presses, did_press),
                       branch |-> here]
                 ELSE [value |-> st.value, least_presses |-> st.least_presses, branch |-> st.branch]
            ELSE IF eval = "Incomplete"
            THEN IF rec.value # None /\ (st.value = None \/ rec.value[1] < st.value[1])
                 THEN [value |-> rec.value,
                       least_presses |-> lower_least(rec.least_presses, rec.value[1]),
                       branch |-> rec.branch]
                 ELSE [value |-> st.value, least_presses |-> rec.least_presses, branch |-> st.branch]
            ELSE [value |-> st.value, least_presses |-> st.least_presses, branch |-> st.branch]
        next == next_combination(st.index_combination)
    IN  [index_combination |-> next.combinations,
         value |-> best.value,
         least_presses |-> best.least_presses,
         branch |-> best.branch,
         tried |-> Append(st.tried, st.index_combination),
         passed |-> IF eval = "Incomplete" THEN st.passed \cup {updated_joltage} ELSE st.passed,
         calls |-> IF eval = "Incomplete" THEN st.calls \cup rec.calls ELSE st.calls,
         done |-> ~next.more]

\* At most n further passes of the loop, stopping at the break.
loop_iterate(current_joltage, sel, presses, committed, st, n) ==
    IF st.done \/ n = 0
    THEN st
    ELSE IF n = 1
    THEN loop_body(current_joltage, sel, presses, committed, st)
    ELSE loop_iterate(current_joltage, sel, presses, committed,
                      loop_iterate(current_joltage, sel, presses, committed, st, n \div 2),
                      n - (n \div 2))

\* The `loop` run until its break.
loop_until_break(current_joltage, sel, presses, committed, st, n) ==
    IF st.done
    THEN st
    ELSE loop_until_break(current_joltage, sel, presses, committed,
                          loop_iterate(current_joltage, sel, presses, committed, st, n), 2 * n)

\* Machine::search_joltage.  The result carries the Option returned, the
\* value of *least_presses at return, and as history the press counts
\* committed along the branch that produced the returned value (committed
\* is the history of the counts committed by the callers) and the set of
\* calls made: this call and every call below it.  A call is recorded with
\* its arguments, what select_buttons returned, the path it took (Pruned,
\* Leaf, Shortcut or Loop), the distributions it pushed, the accumulators it
\* passed to recursive calls, the Option it returned, and the value of
\* *least_presses when it returned (least_after).
search_joltage(current_joltage, btns, presses, least_presses, committed) ==
    LET sel == select_buttons(btns, current_joltage)
        max_presses == sel.max_presses
        looped == loop_until_break(current_joltage, sel, presses, committed,
                      [index_combination |-> Vec([k \in 1..Len(sel.selected) |-> IF k = Len(sel.selected) THEN max_presses ELSE 0]),
                       value |-> None,
                       least_presses |-> least_presses,
                       branch |-> << >>,
                       tried |-> << >>,
                       passed |-> {},
                       calls |-> {},
                       done |-> FALSE], 1)
        shortcut_joltage == push_button_joltage(current_joltage, sel.selected[1], max_presses)
        shortcut == search_joltage(shortcut_joltage, sel.remaining, presses + max_presses, least_presses,
                                   Append(committed, <<sel.selected[1], max_presses>>))
        Call(outcome, tried, passed, returned, least_after) ==
            [current |-> current_joltage, btns |-> btns, presses |-> presses, least_presses |-> least_presses,
             committed |-> committed, sel |-> sel, outcome |-> outcome, tried |-> tried, passed |-> passed,
             value |-> returned, least_after |-> least_after]
    IN  IF too_expensive(presses, max_presses, least_presses)
        THEN [value |-> None, least_presses |-> least_presses, branch |-> << >>,
              calls |-> {Call("Pruned", << >>, {}, None, least_presses)}]
        ELSE IF Len(sel.selected) = 0
        THEN IF evaluate_joltage(current_joltage) = "Hit"
             THEN [value |-> Some(presses), least_presses |-> least_presses, branch |-> committed,
                   calls |-> {Call("Leaf", << >>, {}, Some(presses), least_presses)}]
             ELSE [value |-> None, least_presses |-> least_presses, branch |-> << >>,
                   calls |-> {Call("Leaf", << >>, {}, None, least_presses)}]
        ELSE IF Len(sel.selected) = 1
        THEN [value |-> shortcut.value, least_presses |-> shortcut.least_presses, branch |-> shortcut.branch,
              calls |-> {Call("Shortcut", << <<max_presses>> >>, {shortcut_joltage}, shortcut.value, shortcut.least_presses)} \cup shortcut.calls]
        ELSE [value |-> looped.value, least_presses |-> looped.least_presses, branch |-> looped.branch,
              calls |-> {Call("Loop", looped.tried, looped.passed, looped.value, looped.least_presses)} \cup looped.calls]

\* Machine::best_joltage: the Result returned, and as history the branch of
\* the returned value and the calls of search_joltage made.
best_joltage ==
    LET r == search_joltage(Zeros(Len(joltage)), buttons, 0, UsizeMax, << >>)
    IN  [result |-> IF r.value # None THEN Ok(r.value[1]) ELSE NoSolution, branch |-> r.branch, calls |-> r.calls]

\* ------------------------------------------------------------ Machine::from_input
\* Error::InvalidInput(line)
InvalidInput(line) == [tag |-> "InvalidInput", value |-> line]

Digits == <<"0", "1", "2", "3", "4", "5", "6", "7", "8", "9">>

IsDigit(c) == \E d \in DOMAIN Digits : Digits[d] = c

DigitValue(c) == (CHOOSE d \in DOMAIN Digits : Digits[d] = c) - 1

\* The character classes of the regex: [.#], \s, [()0-9, ] and [0-9,].
LightsClass == {".", "#"}

Whitespace == {" ", "\n"}

ButtonsClass == {Digits[d] : d \in DOMAIN Digits} \cup {"(", ")", ",", " "}

JoltagesClass == {Digits[d] : d \in DOMAIN Digits} \cup {","}

IsWhitespace(c) == c \in Whitespace

\* The last index of the longest run of class characters of w that starts
\* at index i; i - 1 when w[i] is not in the class or i is past the end.
class_run(w, i, class) ==
    IF i > Len(w)
    THEN i - 1
    ELSE CHOOSE j \in (i - 1)..Len(w) :
             /\ \A k \in i..j : w[k] \in class
             /\ j = Len(w) \/ w[j + 1] \notin class

\* The rest of the pattern, \s+\{([0-9,]+)}, after a second group that ends
\* at index b: c is the end of the whitespace, joltages_end the end of the
\* digits and commas.  ok when the rest matches.
after_joltages(w, b, c, joltages_end) ==
    [ok |-> /\ c > b
            /\ c + 1 <= Len(w)
            /\ w[c + 1] = "{"
            /\ joltages_end >= c + 2
            /\ joltages_end + 1 <= Len(w)
            /\ w[joltages_end + 1] = "}",
     joltages_from |-> c + 2,
     joltages_end |-> joltages_end]

after_space(w, b, c) == after_joltages(w, b, c, class_run(w, c + 2, JoltagesClass))

after_group(w, b) == after_space(w, b, class_run(w, b + 1, Whitespace))

\* After the `]` at index close: the pairs <<a, b>> where the first \s+
\* can end (a) and the second group can end (b) in a match.
group_ends(w, close) ==
    {p \in ((close + 1)..class_run(w, close + 1, Whitespace)) \X ((close + 2)..Len(w)) :
        /\ p[2] > p[1]
        /\ p[2] <= class_run(w, p[1] + 1, ButtonsClass)
        /\ after_group(w, p[2]).ok}

\* Both repetitions are greedy: the match takes the longest first \s+, and
\* with it the longest second group.
greedy_end(ends) == CHOOSE p \in ends : \A q \in ends : q[1] < p[1] \/ (q[1] = p[1] /\ q[2] <= p[2])

\* c.extract(): the whole match (line) and the three groups.
extract(w, s, lights_end, p, rest) ==
    [line |-> SubSeq(w, s, rest.joltages_end + 1),
     raw_lights |-> SubSeq(w, s + 1, lights_end),
     raw_buttons |-> SubSeq(w, p[1] + 1, p[2]),
     raw_joltages |-> SubSeq(w, rest.joltages_from, rest.joltages_end),
     end |-> rest.joltages_end + 1]

match_groups(w, s, lights_end, p) == extract(w, s, lights_end, p, after_group(w, p[2]))

match_ends(w, s, lights_end, ends) == IF ends = {} THEN None ELSE Some(match_groups(w, s, lights_end, greedy_end(ends)))

match_lights(w, s, lights_end) ==
    IF lights_end + 1 > Len(w) \/ w[lights_end + 1] # "]"
    THEN None
    ELSE match_ends(w, s, lights_end, group_ends(w, lights_end + 1))

\* The match of \[([.#]*)\]\s+([()0-9, ]+)\s+\{([0-9,]+)} that starts at
\* index s of w, None when there is none.
re_match_at(w, s) ==
    IF s > Len(w) \/ w[s] # "["
    THEN None
    ELSE match_lights(w, s, class_run(w, s + 1, LightsClass))

RECURSIVE captures_iter(_, _)

\* The match c and the matches after it.
captures_after(w, c) == <<c>> \o captures_iter(w, c.end + 1)

\* The leftmost of the matches that start at one of starts, and the rest.
captures_leftmost(w, starts) ==
    IF starts = {}
    THEN << >>
    ELSE captures_after(w, re_match_at(w, CHOOSE s \in starts : \A t \in starts : s <= t)[1])

\* re.captures_iter(input): the successive non-overlapping matches, each
\* the leftmost one that starts at or after index from.
captures_iter(w, from) == captures_leftmost(w, {s \in from..Len(w) : re_match_at(w, s) # None})

RECURSIVE split(_, _)

\* The pieces of s, whose first separator is at index i.
split_at(s, sep, i) == <<SubSeq(s, 1, i - 1)>> \o split(SubSeq(s, i + 1, Len(s)), sep)

\* str::split(sep): the pieces between separators, one (empty) piece for
\* an empty string.
split(s, sep) ==
    IF \A i \in DOMAIN s : s[i] # sep
    THEN <<s>>
    ELSE split_at(s, sep, CHOOSE i \in DOMAIN s : s[i] = sep /\ \A j \in 1..(i - 1) : s[j] # sep)

RECURSIVE digits_value(_)

digits_value(s) == IF Len(s) = 0 THEN 0 ELSE 10 * digits_value(SubSeq(s, 1, Len(s) - 1)) + DigitValue(s[Len(s)])

\* str::parse::<usize>(): None for the Err (an empty string or a character
\* that is not a digit).
parse_usize(s) == IF Len(s) = 0 \/ \E i \in DOMAIN s : ~IsDigit(s[i]) THEN None ELSE Some(digits_value(s))

\* collect::<Result<Vec<_>, Error>>() over parsed pieces: None for the Err.
collect(results) ==
    IF \E k \in DOMAIN results : results[k] = None
    THEN None
    ELSE Some(Vec([k \in DOMAIN results |-> results[k][1]]))

\* .map(|s| s.parse::<usize>()).collect(): None for the Err.
parse_each(tokens) == collect(Vec([k \in DOMAIN tokens |-> parse_usize(tokens[k])]))

\* The closure applied to each piece of raw_buttons.split(' ').
parse_button(s) == IF Len(s) >= 2 THEN parse_each(split(SubSeq(s, 2, Len(s) - 1), ",")) ELSE None

parse_buttons(tokens) == collect(Vec([k \in DOMAIN tokens |-> parse_button(tokens[k])]))

\* The Machine pushed for a match, or the Err its `?` returns.
push_machine(c, js, bs) ==
    IF js = None \/ bs = None
    THEN InvalidInput(c.line)
    ELSE Ok([lights |-> Vec([i \in DOMAIN c.raw_lights |-> c.raw_lights[i] = "#"]),
             buttons |-> bs[1],
             joltage |-> js[1]])

\* The body of the for loop of from_input for one match.
machine_of(c) == push_machine(c, parse_each(split(c.raw_joltages, ",")), parse_buttons(split(c.raw_buttons, " ")))

\* The loop over the matches.
machines_of(caps) == Vec([k \in DOMAIN caps |-> machine_of(caps[k])])

\* Variant of the return of from_input that leaves out the matches that
\* fail to parse.
machines_result_skipping(results) == Ok(Vec([k \in DOMAIN SelectSeq(results, LAMBDA r : r.tag = "Ok") |-> SelectSeq(results, LAMBDA r : r.tag = "Ok")[k].value]))

\* What from_input returns: Ok(machines), or the Err of the first match
\* that fails to parse.
machines_result(results) ==
    IF \A k \in DOMAIN results : results[k].tag = "Ok"
    THEN Ok(Vec([k \in DOMAIN results |-> results[k].value]))
    ELSE results[CHOOSE k \in DOMAIN results : results[k].tag # "Ok" /\ \A j \in 1..(k - 1) : results[j].tag = "Ok"]

\* Machine::from_input
from_input(text) == machines_result(machines_of(captures_iter(text, 1)))

\* --------------------------------------------------- day2 is_invalid_value
\* A u64 is the sequence of its decimal digits (0..9), most significant
\* first and without leading zeros; zero is <<0>>.
RECURSIVE digits_int(_)

\* The number a short digit sequence denotes.
digits_int(d) == IF Len(d) = 0 THEN 0 ELSE 10 * digits_int(SubSeq(d, 1, Len(d) - 1)) + d[Len(d)]

\* Half the distance between neighbouring f64 values just below 10^n, for
\* the n where 10^n lies above 2^53 and below u64::MAX.
half_ulp_below(n) == CASE n = 16 -> 1 [] n = 17 -> 8 [] n = 18 -> 64 [] n = 19 -> 1024 [] OTHER -> 0

\* `value as f64` is 10^Len(v): v lies within half an ulp of it (a tie
\* rounds to 10^n, whose mantissa is even).
casts_to_power_of_ten(v) ==
    /\ half_ulp_below(Len(v)) > 0
    /\ \A k \in 1..(Len(v) - 4) : v[k] = 9
    /\ 10000 - digits_int(SubSeq(v, Len(v) - 3, Len(v))) <= half_ulp_below(Len(v))

\* ((value as f64).log10().floor() + 1.0) as u64.  log10 of zero is -inf,
\* which the cast saturates to 0; log10 is exact at a power of ten.  Below
\* 10^14 the floor is the digit count less one.  For the values from
\* 10^15 - 2 that do not cast to a power of ten the floor depends on the
\* rounding of the platform's log10: no input of the model lies there.
digits_f64(v) ==
    IF v = <<0>>
    THEN 0
    ELSE IF casts_to_power_of_ten(v) THEN Len(v) + 1 ELSE Len(v)

\* value / 10u64.pow(n)
div_pow10(v, n) == IF n >= Len(v) THEN <<0>> ELSE SubSeq(v, 1, Len(v) - n)

\* candidate *= 10u64.pow(i)
mul_pow10(c, i) == IF c = <<0>> THEN c ELSE c \o [k \in 1..i |-> 0]

\* The digits of a sequence without its leading zeros.
normalised(d) ==
    LET nz == {k \in DOMAIN d : d[k] # 0}
    IN  IF nz = {} THEN <<0>> ELSE SubSeq(d, CHOOSE k \in nz : \A j \in nz : k <= j, Len(d))

\* candidate += pattern, for a candidate that ends in i zeros (or is zero)
\* and a pattern below 10^i: the pattern takes the place of the zeros.
add_below(c, pattern, i) ==
    LET padded == [k \in 1..(i - Len(pattern)) |-> 0] \o pattern
    IN  IF c = <<0>> THEN normalised(padded) ELSE SubSeq(c, 1, Len(c) - i) \o padded

RECURSIVE repeat_pattern(_, _, _, _)

\* The `for _ in 0..repetitions` loop, with n passes left.
repeat_pattern(candidate, pattern, i, n) ==
    IF n = 0
    THEN candidate
    ELSE repeat_pattern(add_below(mul_pow10(candidate, i), pattern, i), pattern, i, n - 1)

\* is_invalid_value: true when the loop returns true for some i.
is_invalid_value(v, min_r, max_r) ==
    LET digits == digits_f64(v)
    IN  /\ digits >= 2
        /\ \E i \in 1..(digits \div 2) :
              /\ digits % i = 0
              /\ ~((digits \div i) < min_r \/ (digits \div i) > max_r)
              /\ repeat_pattern(<<0>>, div_pow10(v, digits - i), i, digits \div i) = v

\* ------------------------------------------------------------ input texts
\* Bounds of the input texts.
MaxLines == 2
MaxBatch == 2

\* The lights part of a line: `[#]`, `[.#]`, and `#]` without its opening bracket.
LightsTexts ==
    {<<"[", "#", "]">>,
     <<"[", ".", "#", "]">>,
     <<"#", "]">>}

\* The buttons part: `(0)`, `(0) (1)`, `(0,1)`, `(1)`, and the malformed `()`, `(a)` and `0`.
ButtonsTexts ==
    {<<"(", "0", ")">>,
     <<"(", "0", ")", " ", "(", "1", ")">>,
     <<"(", "0", ",", "1", ")">>,
     <<"(", "1", ")">>,
     <<"(", ")">>,
     <<"(", "a", ")">>,
     <<"0">>}

\* The joltages part: `{1}`, `{1,2}`, and the malformed `{1,}` and `{}`.
JoltagesTexts ==
    {<<"{", "1", "}">>,
     <<"{", "1", ",", "2", "}">>,
     <<"{", "1", ",", "}">>,
     <<"{", "}">>}

\* One or two spaces before the joltages part.
Gaps ==
    {<<" ">>,
     <<" ", " ">>}

\* Lines of every combination of the parts.
AnyLines == {l \o <<" ">> \o b \o g \o j : l \in LightsTexts, b \in ButtonsTexts, g \in Gaps, j \in JoltagesTexts}

\* Two well-formed lines: `[#] (0) {1}` and `[.#] (0,1) {1,1}`.
GoodLines ==
    {<<"[", "#", "]", " ", "(", "0", ")", " ", "{", "1", "}">>,
     <<"[", ".", "#", "]", " ", "(", "0", ",", "1", ")", " ", "{", "1", ",", "1", "}">>}

RECURSIVE JoinLines(_)

\* The text of a sequence of lines, each ended by a newline.
JoinLines(ls) == IF Len(ls) = 0 THEN << >> ELSE ls[1] \o <<"\n">> \o JoinLines(Tail(ls))

\* Texts of at most MaxLines lines, all of them well-formed but one.
ParseInputs ==
    {<< >>} \cup
    UNION {{JoinLines(Vec([i \in 1..n |-> IF i = k THEN a ELSE g[IF i < k THEN i ELSE i - 1]])) :
               k \in 1..n, a \in AnyLines, g \in [1..(n - 1) -> GoodLines]} : n \in 1..MaxLines}

\* The lines of the batches: index-safe machines with every combination of
\* solvable and unsolvable parts, and one line that fails to parse.
BatchLines ==
    {<<"[", ".", "]", " ", "(", "0", ")", " ", "{", "0", "}">>,
     <<"[", "#", ".", "]", " ", "(", "0", ")", " ", "{", "1", ",", "0", "}">>,
     <<"[", "#", "#", "]", " ", "(", "0", ")", " ", "(", "1", ")", " ", "{", "1", ",", "1", "}">>,
     <<"[", "#", ".", "]", " ", "(", "0", ")", " ", "{", "1", ",", "1", "}">>,
     <<"[", ".", "#", "]", " ", "(", "0", ")", " ", "{", "2", ",", "0", "}">>,
     <<"[", "#", "]", " ", "(", ")", " ", "{", "1", "}">>}

\* Texts of at most MaxBatch lines of BatchLines.
BatchInputs == UNION {{JoinLines(ls) : ls \in [1..n -> BatchLines]} : n \in 0..MaxBatch}

\* Bounds of the day2 values.
MaxDigits == 6
MaxRepetitions == 3

\* Values of at most MaxDigits digits over 0, 1 and 9.
ShortValues == UNION {{v \in [1..n -> {0, 1, 9}] : v[1] # 0} : n \in 1..MaxDigits}

\* 1188511885, 1188511886 and 9999999999999999 (which casts to 10^16).
LongValues ==
    {<<1, 1, 8, 8, 5, 1, 1, 8, 8, 5>>,
     <<1, 1, 8, 8, 5, 1, 1, 8, 8, 6>>,
     <<9, 9, 9, 9, 9, 9, 9, 9, 9, 9, 9, 9, 9, 9, 9, 9>>}

\* u64::MAX as max_repetitions: no repetition count reaches it.
AnyRepetitions == UsizeMax

\* ------------------------------------------------------------- day3 max_num
RECURSIVE pow10(_)

\* 10u64.pow(n)
pow10(n) == IF n = 0 THEN 1 ELSE 10 * pow10(n - 1)

RECURSIVE scan_largest(_, _, _, _, _)

\* Variant of the inner loop of max_num_iterative that keeps the last of
\* the largest digits.
scan_largest_last(bank, i, end, largest, index) ==
    IF i >= end
    THEN [largest |-> largest, index |-> index]
    ELSE IF bank[i + 1] >= largest
         THEN scan_largest(bank, i + 1, end, bank[i + 1], i)
         ELSE scan_largest(bank, i + 1, end, largest, index)

\* The loop `for i in start..end` of max_num_iterative from i on: the
\* largest digit of the window and the index of its first occurrence.
scan_largest(bank, i, end, largest, index) ==
    IF i >= end
    THEN [largest |-> largest, index |-> index]
    ELSE IF bank[i + 1] > largest
         THEN scan_largest(bank, i + 1, end, bank[i + 1], i)
         ELSE scan_largest(bank, i + 1, end, largest, index)

RECURSIVE iterative_loop(_, _, _, _)

\* The digit picked for the window start..end, then the later windows.
iterative_pick(bank, end, sum_before, picked) == iterative_loop(bank, end + 1, picked.index + 1, sum_before * 10 + picked.largest)

\* The loop `for end in ..=bank.len()` of max_num_iterative from end on.
iterative_loop(bank, end, start, sum_before) ==
    IF end > Len(bank)
    THEN sum_before
    ELSE iterative_pick(bank, end, sum_before, scan_largest(bank, start, end, 0, start))

\* max_num_iterative
max_num_iterative(bank, num_digits) == iterative_loop(bank, Len(bank) - (num_digits - 1), 0, 0)

RECURSIVE recurse(_, _, _, _, _, _)
RECURSIVE recurse_loop(_, _, _, _, _, _)

\* max(candidate, new_max), then the rest of the loop.
recurse_next(bank, max_digits, num_digits, i, num, new_max, candidate) ==
    recurse_loop(bank, max_digits, num_digits, i + 1, num, IF candidate > new_max THEN candidate ELSE new_max)

\* The loop `for i in (index + 1)..bank.len()` of recurse from i on, and
\* the return after it.
recurse_loop(bank, max_digits, num_digits, i, num, new_max) ==
    IF i >= Len(bank)
    THEN new_max
    ELSE recurse_next(bank, max_digits, num_digits, i, num, new_max,
                      recurse(bank, max_digits, num_digits + 1, i, num, new_max))

\* recurse after `let num = current * 10 + digit`.
recurse_with(bank, max_digits, num_digits, index, num, max) ==
    IF num_digits + 1 >= max_digits
    THEN IF num > max THEN num ELSE max
    ELSE IF num * pow10(max_digits - num_digits - 1) < max
         THEN max
         ELSE recurse_loop(bank, max_digits, num_digits, index + 1, num, IF num > max THEN num ELSE max)

\* recurse
recurse(bank, max_digits, num_digits, index, current, max) ==
    recurse_with(bank, max_digits, num_digits, index, current * 10 + bank[index + 1], max)

RECURSIVE recursive_loop(_, _, _, _)

recursive_next(bank, num_digits, i, max, candidate) ==
    recursive_loop(bank, num_digits, i + 1, IF candidate > max THEN candidate ELSE max)

\* The loop `for i in 0..=(bank.len() - num_digits)` of max_num_recursive.
recursive_loop(bank, num_digits, i, max) ==
    IF i > Len(bank) - num_digits
    THEN max
    ELSE recursive_next(bank, num_digits, i, max, recurse(bank, num_digits, 0, i, 0, max))

\* max_num_recursive
max_num_recursive(bank, num_digits) == recursive_loop(bank, num_digits, 0, 0)

\* Banks of up to MaxBank digits.
BankDigits == {0, 1, 9}

Banks == UNION {[1..n -> BankDigits] : n \in 1..MaxBank}

\* --------------------------------------------------------------- day1 part2
\* i32 division, which truncates toward zero.
div_trunc(a, b) == IF a >= 0 THEN a \div b ELSE 0 - ((0 - a) \div b)

\* i32::abs
abs(a) == IF a >= 0 THEN a ELSE 0 - a

\* i32::rem_euclid
rem_euclid(a, b) == a % b

\* The 'L' arm of part2: what it adds to zeroes.
left_zeroes(dial, clicks) ==
    abs(div_trunc(dial - clicks, 100)) + (IF dial - clicks = 0 \/ (clicks > dial /\ dial # 0) THEN 1 ELSE 0)

\* The 'R' arm of part2: what it adds to zeroes.
right_zeroes(dial, clicks) == div_trunc(dial + clicks, 100)

\* ------------------------------------------------------------------ day4 Map
\* Map::get: the cell at (x, y), Empty outside the map.
get(self, x, y) ==
    IF x < 0 \/ y < 0 \/ x >= self.width \/ y >= self.height
    THEN "Empty"
    ELSE self.cells[(x + y * self.width) + 1]

\* Map::count_adjacent
count_adjacent(self, x, y) ==
    Cardinality({d \in ((0 - 1)..1) \X ((0 - 1)..1) : d # <<0, 0>> /\ get(self, x + d[1], y + d[2]) = "Roll"})

\* Variant of can_move that also moves a roll with 4 adjacent rolls.
can_move_with_four(self, x, y) == get(self, x, y) = "Roll" /\ count_adjacent(self, x, y) < 5

\* Map::can_move
can_move(self, x, y) == get(self, x, y) = "Roll" /\ count_adjacent(self, x, y) < 4

\* The (x, y) pairs in the order of the loops of get_movable: x outside.
positions_of(self) == Vec([k \in 1..(self.width * self.height) |-> <<(k - 1) \div self.height, (k - 1) % self.height>>])

\* Map::get_movable
get_movable(self) == SelectSeq(positions_of(self), LAMBDA p : can_move(self, p[1], p[2]))

\* Map::remove_movable: the map afterwards.
remove_movable(self, movable) ==
    [self EXCEPT !.cells = Vec([k \in 1..Len(self.cells) |->
        IF \E m \in DOMAIN movable : movable[m][1] + movable[m][2] * self.width = k - 1 THEN "Empty" ELSE self.cells[k]])]

\* The sets of at most k of the cells 1..n.
RECURSIVE CellSets(_, _)
CellSets(n, k) ==
    IF k = 0
    THEN {{}}
    ELSE {e \cup {x} : e \in CellSets(n, k - 1), x \in 1..n} \cup {{}}

\* The maps Map::from_str returns for rectangular grids of `.` and `@`
\* with at most MaxEmpty `.` characters.
Maps ==
    UNION {{[width |-> w, height |-> h,
             cells |-> Vec([k \in 1..(w * h) |-> IF k \in e THEN "Empty" ELSE "Roll"])] :
                e \in CellSets(w * h, MaxEmpty)} :
              w \in 1..MaxSide, h \in 1..MaxSide}

\* ------------------------------------------------------------ day8 circuits
\* The junction boxes that are told apart, as struct JunctionBox.
JunctionBoxes == {[x |-> i, y |-> 0, z |-> 0] : i \in 1..MaxBoxes}

\* The loop of add_pair_to_circuits: the index of the first circuit that
\* contains the box, counted from 0, or None.
first_index(circuits_, box) ==
    IF \E i \in DOMAIN circuits_ : box \in circuits_[i]
    THEN Some((CHOOSE i \in DOMAIN circuits_ :
                  /\ box \in circuits_[i]
                  /\ \A j \in 1..(i - 1) : box \notin circuits_[j]) - 1)
    ELSE None

\* Vec::remove: the vector without the element at an index counted from 0.
remove(vec, index) == SubSeq(vec, 1, index) \o SubSeq(vec, index + 2, Len(vec))

min(a, b) == IF a <= b THEN a ELSE b

max(a, b) == IF a >= b THEN a ELSE b

\* Variant of merge_circuits that leaves the vanishing circuit in the list.
merge_circuits_keeping(circuits_, index1, index2) ==
    [circuits_ EXCEPT ![min(index1, index2) + 1] = @ \cup circuits_[max(index1, index2) + 1]]

\* The merge of two different circuits: the later one is taken out of the
\* list and its boxes go into the earlier one.
merge_circuits(circuits_, index1, index2) ==
    LET vanishing == circuits_[max(index1, index2) + 1]
    IN  [remove(circuits_, max(index1, index2)) EXCEPT ![min(index1, index2) + 1] = @ \cup vanishing]

\* add_pair_to_circuits: the list afterwards.
add_pair_to_circuits(box1, box2, circuits_) ==
    LET index1 == first_index(circuits_, box1)
        index2 == first_index(circuits_, box2)
    IN  CASE index1 = None /\ index2 = None -> Append(circuits_, {box1, box2})
          [] index1 # None /\ index2 = None -> [circuits_ EXCEPT ![index1[1] + 1] = @ \cup {box2}]
          [] index1 = None /\ index2 # None -> [circuits_ EXCEPT ![index2[1] + 1] = @ \cup {box1}]
          [] OTHER -> IF index1 = index2
                      THEN circuits_
                      ELSE merge_circuits(circuits_, index1[1], index2[1])

\* ----------------------------------------------------------------- actions
\* The variables of the parts of the program a specification leaves out.
SolverIdle ==
    /\ lights = << >>
    /\ buttons = << >>
    /\ joltage = << >>
    /\ lightResult = NotCalled
    /\ lightCalls = {}
    /\ joltResult = NotCalled
    /\ joltBranch = << >>
    /\ joltCalls = {}

MainIdle ==
    /\ input = << >>
    /\ parsed = NotCalled
    /\ pc = "idle"
    /\ machine_index = 0
    /\ sum = 0
    /\ output = << >>
    /\ part1Result = NotCalled
    /\ part2Result = NotCalled
    /\ solved = << >>

Day2Idle ==
    /\ value = <<0>>
    /\ min_repetitions = 0
    /\ max_repetitions = 0
    /\ invalidResult = None

OrderIdle ==
    /\ firstButtons = << >>
    /\ firstLight = NotCalled
    /\ firstJolt = NotCalled

Day3Idle ==
    /\ batteryBank = << >>
    /\ numDigits = 0
    /\ iterativeMax = None
    /\ recursiveMax = None

Day1Idle ==
    /\ number = 50
    /\ zeroes = 0
    /\ instruction = << >>
    /\ lines_read = 0

EmptyMap == [width |-> 0, height |-> 0, cells |-> << >>]

Day4Idle ==
    /\ map = EmptyMap
    /\ initial_map = None
    /\ moved = 0
    /\ rounds = 0
    /\ reported = None

Day8Idle ==
    /\ circuits = << >>
    /\ added_pairs = {}

\* The variables outside the day10 program and day2 are left alone.
RestIdle == OrderIdle /\ Day3Idle /\ Day1Idle /\ Day4Idle /\ Day8Idle

LightInit ==
    /\ \E n \in 0..MaxLights :
          /\ lights \in [1..n -> BOOLEAN]
          /\ buttons \in ButtonLists(n, MaxLightButtons)
          /\ joltage = Zeros(n)
    /\ lightResult = NotCalled
    /\ lightCalls = {}
    /\ joltResult = NotCalled
    /\ joltBranch = << >>
    /\ joltCalls = {}
    /\ MainIdle
    /\ Day2Idle
    /\ RestIdle

\* A call of machine.light_up(); the machine is borrowed immutably.
LightUp ==
    /\ lightResult' = light_up
    /\ lightCalls' = light_up_calls
    /\ UNCHANGED <<lights, buttons, joltage, joltResult, joltBranch, joltCalls, mainVars, day2Vars, restVars>>

LightSpec == LightInit /\ [][LightUp]_vars

JoltInit ==
    /\ \E n \in 0..MaxPositions :
          /\ lights = AllOff(n)
          /\ buttons \in WiredButtonLists(n, MaxWiring)
          /\ joltage \in JoltageTargets(n, MaxJoltSum)
    /\ lightResult = NotCalled
    /\ lightCalls = {}
    /\ joltResult = NotCalled
    /\ joltBranch = << >>
    /\ joltCalls = {}
    /\ MainIdle
    /\ Day2Idle
    /\ RestIdle

\* A call of machine.best_joltage(); joltBranch records the press counts
\* committed along the branch whose value is returned, joltCalls the calls
\* of search_joltage made.
BestJoltage ==
    /\ \E out \in {best_joltage} :
          /\ joltResult' = out.result
          /\ joltBranch' = out.branch
          /\ joltCalls' = out.calls
    /\ UNCHANGED <<lights, buttons, joltage, lightResult, lightCalls, mainVars, day2Vars, restVars>>

JoltSpec == JoltInit /\ [][BestJoltage]_vars

\* A machine with a light pattern and joltage targets of its own, for calls
\* of both solvers.
SolveInit ==
    /\ \E n \in 0..MaxPositions :
          /\ lights \in [1..n -> BOOLEAN]
          /\ buttons \in WiredButtonLists(n, MaxSolveWiring)
          /\ joltage \in JoltageTargets(n, MaxSolveSum)
    /\ lightResult = NotCalled
    /\ lightCalls = {}
    /\ joltResult = NotCalled
    /\ joltBranch = << >>
    /\ joltCalls = {}
    /\ MainIdle
    /\ Day2Idle
    /\ RestIdle

SolveNext == LightUp \/ BestJoltage

SolveSpec == SolveInit /\ [][SolveNext]_vars

\* The orders a button list can be written in.
Permuted(btns) ==
    {Vec([i \in 1..Len(btns) |-> btns[p[i]]]) :
        p \in {q \in [1..Len(btns) -> 1..Len(btns)] : \A i, j \in 1..Len(btns) : q[i] = q[j] => i = j}}

\* The same machine read with its buttons in another order, once both
\* solvers have run: the results of the first run are kept and the solvers
\* start afresh.
Reorder ==
    /\ lightResult # NotCalled
    /\ joltResult # NotCalled
    /\ firstLight = NotCalled
    /\ buttons' \in Permuted(buttons) \ {buttons}
    /\ firstButtons' = buttons
    /\ firstLight' = lightResult
    /\ firstJolt' = joltResult
    /\ lightResult' = NotCalled
    /\ lightCalls' = {}
    /\ joltResult' = NotCalled
    /\ joltBranch' = << >>
    /\ joltCalls' = {}
    /\ UNCHANGED <<lights, joltage, mainVars, day2Vars, day3Vars, day1Vars, day4Vars, day8Vars>>

\* One machine for each collection of buttons, in the order the first run
\* reads them; Reorder gives every other order.
OrderInit ==
    /\ SolveInit
    /\ buttons = CHOOSE b \in Permuted(buttons) : TRUE

OrderNext == LightUp \/ BestJoltage \/ Reorder

OrderSpec == OrderInit /\ [][OrderNext]_vars

\* An input text handed to Machine::from_input.
ParseInit ==
    /\ input \in ParseInputs
    /\ parsed = NotCalled
    /\ pc = "idle"
    /\ machine_index = 0
    /\ sum = 0
    /\ output = << >>
    /\ part1Result = NotCalled
    /\ part2Result = NotCalled
    /\ solved = << >>
    /\ SolverIdle
    /\ Day2Idle
    /\ RestIdle

\* A call of Machine::from_input(input).
FromInput ==
    /\ parsed' = from_input(input)
    /\ UNCHANGED <<solverVars, day2Vars, restVars, input, pc, machine_index, sum, output, part1Result, part2Result, solved>>

ParseSpec == ParseInit /\ [][FromInput]_vars

\* The program at the start of main, with its input text.
MainInit ==
    /\ input \in BatchInputs
    /\ parsed = NotCalled
    /\ pc = "part1"
    /\ machine_index = 0
    /\ sum = 0
    /\ output = << >>
    /\ part1Result = NotCalled
    /\ part2Result = NotCalled
    /\ solved = << >>
    /\ SolverIdle
    /\ Day2Idle
    /\ RestIdle

\* Ok(()) of part1 / part2.
OkUnit == [tag |-> "Ok", value |-> << >>]

\* One println!: the `Part N: sum` lines, the `index: foo` lines of part2
\* and the `Elapsed` lines of main.
PrintedLine(kind, i, v) == [kind |-> kind, index |-> i, value |-> v]

\* `let machines = Machine::from_input(input)?;` of part1: the Err is
\* returned to main, which returns it.
Part1FromInput ==
    /\ pc = "part1"
    /\ parsed' = from_input(input)
    /\ IF parsed'.tag = "Ok"
       THEN /\ pc' = "part1_loop"
            /\ UNCHANGED part1Result
       ELSE /\ pc' = "done"
            /\ part1Result' = parsed'
    /\ machine_index' = 0
    /\ sum' = 0
    /\ UNCHANGED <<solverVars, day2Vars, restVars, input, output, part2Result, solved>>

\* `for machine in machines`: the next Machine of the Vec.
Part1Next ==
    /\ pc = "part1_loop"
    /\ machine_index < Len(parsed.value)
    /\ lights' = parsed.value[machine_index + 1].lights
    /\ buttons' = parsed.value[machine_index + 1].buttons
    /\ joltage' = parsed.value[machine_index + 1].joltage
    /\ pc' = "part1_light_up"
    /\ UNCHANGED <<lightResult, lightCalls, joltResult, joltBranch, joltCalls, day2Vars, restVars,
                   input, parsed, machine_index, sum, output, part1Result, part2Result, solved>>

\* `sum += machine.light_up()?;`
Part1LightUp ==
    /\ pc = "part1_light_up"
    /\ lightResult' = light_up
    /\ lightCalls' = light_up_calls
    /\ solved' = Append(solved, [part |-> "Part 1", index |-> machine_index, tag |-> lightResult'.tag])
    /\ IF lightResult'.tag = "Ok"
       THEN /\ sum' = sum + lightResult'.value
            /\ machine_index' = machine_index + 1
            /\ pc' = "part1_loop"
            /\ UNCHANGED part1Result
       ELSE /\ part1Result' = lightResult'
            /\ pc' = "done"
            /\ UNCHANGED <<sum, machine_index>>
    /\ UNCHANGED <<lights, buttons, joltage, joltResult, joltBranch, joltCalls, day2Vars, restVars,
                   input, parsed, output, part2Result>>

\* `println!("Part 1: {}", sum); Ok(())` after the last machine.
Part1Print ==
    /\ pc = "part1_loop"
    /\ machine_index = Len(parsed.value)
    /\ output' = Append(output, PrintedLine("Part 1", 0, sum))
    /\ part1Result' = OkUnit
    /\ pc' = "elapsed1"
    /\ UNCHANGED <<solverVars, day2Vars, restVars, input, parsed, machine_index, sum, part2Result, solved>>

\* main after part1(input)?: the first `Elapsed` line, then part2.
MainElapsed1 ==
    /\ pc = "elapsed1"
    /\ output' = Append(output, PrintedLine("Elapsed", 0, 0))
    /\ pc' = "part2"
    /\ UNCHANGED <<solverVars, day2Vars, restVars, input, parsed, machine_index, sum, part1Result, part2Result, solved>>

\* `let machines = Machine::from_input(input)?;` of part2.
Part2FromInput ==
    /\ pc = "part2"
    /\ parsed' = from_input(input)
    /\ IF parsed'.tag = "Ok"
       THEN /\ pc' = "part2_loop"
            /\ UNCHANGED part2Result
       ELSE /\ pc' = "done"
            /\ part2Result' = parsed'
    /\ machine_index' = 0
    /\ sum' = 0
    /\ UNCHANGED <<solverVars, day2Vars, restVars, input, output, part1Result, solved>>

\* `for (index, machine) in machines.iter().enumerate()`: the next Machine.
Part2Next ==
    /\ pc = "part2_loop"
    /\ machine_index < Len(parsed.value)
    /\ lights' = parsed.value[machine_index + 1].lights
    /\ buttons' = parsed.value[machine_index + 1].buttons
    /\ joltage' = parsed.value[machine_index + 1].joltage
    /\ pc' = "part2_best_joltage"
    /\ UNCHANGED <<lightResult, lightCalls, joltResult, joltBranch, joltCalls, day2Vars, restVars,
                   input, parsed, machine_index, sum, output, part1Result, part2Result, solved>>

\* `let foo = machine.best_joltage()?; println!("{}: {}", index, foo);
\* sum += foo;`
Part2BestJoltage ==
    /\ pc = "part2_best_joltage"
    /\ \E out \in {best_joltage} :
          /\ joltResult' = out.result
          /\ joltBranch' = out.branch
          /\ joltCalls' = out.calls
    /\ solved' = Append(solved, [part |-> "Part 2", index |-> machine_index, tag |-> joltResult'.tag])
    /\ IF joltResult'.tag = "Ok"
       THEN /\ output' = Append(output, PrintedLine("Machine", machine_index, joltResult'.value))
            /\ sum' = sum + joltResult'.value
            /\ machine_index' = machine_index + 1
            /\ pc' = "part2_loop"
            /\ UNCHANGED part2Result
       ELSE /\ part2Result' = joltResult'
            /\ pc' = "done"
            /\ UNCHANGED <<output, sum, machine_index>>
    /\ UNCHANGED <<lights, buttons, joltage, lightResult, lightCalls, day2Vars, restVars, input, parsed, part1Result>>

\* `println!("Part 2: {}", sum); Ok(())` after the last machine.
Part2Print ==
    /\ pc = "part2_loop"
    /\ machine_index = Len(parsed.value)
    /\ output' = Append(output, PrintedLine("Part 2", 0, sum))
    /\ part2Result' = OkUnit
    /\ pc' = "elapsed2"
    /\ UNCHANGED <<solverVars, day2Vars, restVars, input, parsed, machine_index, sum, part1Result, solved>>

\* main after part2(input)?: the second `Elapsed` line and Ok(()).
MainElapsed2 ==
    /\ pc = "elapsed2"
    /\ output' = Append(output, PrintedLine("Elapsed", 0, 0))
    /\ pc' = "done"
    /\ UNCHANGED <<solverVars, day2Vars, restVars, input, parsed, machine_index, sum, part1Result, part2Result, solved>>

MainNext ==
    \/ Part1FromInput
    \/ Part1Next
    \/ Part1LightUp
    \/ Part1Print
    \/ MainElapsed1
    \/ Part2FromInput
    \/ Part2Next
    \/ Part2BestJoltage
    \/ Part2Print
    \/ MainElapsed2

MainSpec == MainInit /\ [][MainNext]_vars

\* The arguments of a call of is_invalid_value.
Day2Init ==
    /\ value \in ShortValues \cup LongValues
    /\ min_repetitions \in 2..MaxRepetitions
    /\ max_repetitions \in (1..MaxRepetitions) \cup {AnyRepetitions}
    /\ invalidResult = None
    /\ SolverIdle
    /\ MainIdle
    /\ RestIdle

\* A call of is_invalid_value(value, min_repetitions, max_repetitions).
IsInvalidValue ==
    /\ invalidResult' = Some(is_invalid_value(value, min_repetitions, max_repetitions))
    /\ UNCHANGED <<solverVars, mainVars, restVars, value, min_repetitions, max_repetitions>>

Day2Spec == Day2Init /\ [][IsInvalidValue]_vars

\* A bank and a number of digits with 1 <= num_digits <= bank.len().
Day3Init ==
    /\ batteryBank \in Banks
    /\ numDigits \in 1..Len(batteryBank)
    /\ iterativeMax = None
    /\ recursiveMax = None
    /\ SolverIdle
    /\ MainIdle
    /\ Day2Idle
    /\ OrderIdle
    /\ Day1Idle
    /\ Day4Idle
    /\ Day8Idle

\* A call of max_num_iterative(&bank, num_digits).
MaxNumIterative ==
    /\ iterativeMax' = Some(max_num_iterative(batteryBank, numDigits))
    /\ UNCHANGED <<solverVars, mainVars, day2Vars, orderVars, day1Vars, day4Vars, day8Vars, batteryBank, numDigits, recursiveMax>>

\* A call of max_num_recursive(&bank, num_digits).
MaxNumRecursive ==
    /\ recursiveMax' = Some(max_num_recursive(batteryBank, numDigits))
    /\ UNCHANGED <<solverVars, mainVars, day2Vars, orderVars, day1Vars, day4Vars, day8Vars, batteryBank, numDigits, iterativeMax>>

Day3Next == MaxNumIterative \/ MaxNumRecursive

Day3Spec == Day3Init /\ [][Day3Next]_vars

\* part2 before its first line: `let mut number = 50; let mut zeroes = 0;`.
Day1Init ==
    /\ number = 50
    /\ zeroes = 0
    /\ instruction = << >>
    /\ lines_read = 0
    /\ SolverIdle
    /\ MainIdle
    /\ Day2Idle
    /\ OrderIdle
    /\ Day3Idle
    /\ Day4Idle
    /\ Day8Idle

\* One pass of the loop of part2 for a line `L<clicks>`.
TurnLeft ==
    /\ lines_read < MaxInstructions
    /\ \E clicks \in 0..MaxClicks :
          /\ instruction' = <<"L", clicks>>
          /\ zeroes' = zeroes + left_zeroes(number, clicks)
          /\ number' = rem_euclid(number - clicks, 100)
    /\ lines_read' = lines_read + 1
    /\ UNCHANGED <<solverVars, mainVars, day2Vars, orderVars, day3Vars, day4Vars, day8Vars>>

\* One pass of the loop of part2 for a line `R<clicks>`.
TurnRight ==
    /\ lines_read < MaxInstructions
    /\ \E clicks \in 0..MaxClicks :
          /\ instruction' = <<"R", clicks>>
          /\ zeroes' = zeroes + right_zeroes(number, clicks)
          /\ number' = rem_euclid(number + clicks, 100)
    /\ lines_read' = lines_read + 1
    /\ UNCHANGED <<solverVars, mainVars, day2Vars, orderVars, day3Vars, day4Vars, day8Vars>>

Day1Next == TurnLeft \/ TurnRight

Day1Spec == Day1Init /\ [][Day1Next]_vars

\* part2 before it reads its input. initial_map keeps the map as parsed,
\* rounds counts the passes that removed rolls.
Day4Init ==
    /\ Day4Idle
    /\ rounds = 0
    /\ reported = None
    /\ SolverIdle
    /\ MainIdle
    /\ Day2Idle
    /\ OrderIdle
    /\ Day3Idle
    /\ Day1Idle
    /\ Day8Idle

\* `let mut map = Map::from_str(input)?; let mut moved = 0;`
MapFromStr ==
    /\ initial_map = None
    /\ \E from_input_map \in Maps :
        /\ map' = from_input_map
        /\ initial_map' = Some(from_input_map)
    /\ moved' = 0
    /\ UNCHANGED <<rounds, reported, solverVars, mainVars, day2Vars, orderVars, day3Vars, day1Vars, day8Vars>>

\* A pass of the loop of part2 that finds rolls to move.
RemoveMovable ==
    /\ initial_map # None
    /\ reported = None
    /\ \E movable \in {get_movable(map)} :
        /\ Len(movable) # 0
        /\ moved' = moved + Len(movable)
        /\ map' = remove_movable(map, movable)
    /\ rounds' = rounds + 1
    /\ UNCHANGED <<initial_map, reported, solverVars, mainVars, day2Vars, orderVars, day3Vars, day1Vars, day8Vars>>

\* The pass that finds none: `break`, then `println!("Part 2: {}", moved)`.
BreakAndPrint ==
    /\ initial_map # None
    /\ reported = None
    /\ \E movable \in {get_movable(map)} : Len(movable) = 0
    /\ reported' = Some(moved)
    /\ UNCHANGED <<map, initial_map, moved, rounds, solverVars, mainVars, day2Vars, orderVars, day3Vars, day1Vars, day8Vars>>

Day4Next == MapFromStr \/ RemoveMovable \/ BreakAndPrint

Day4Spec == Day4Init /\ [][Day4Next]_vars

\* part2 runs on: a pass of the loop that can be taken is taken.
Day4FairSpec == Day4Spec /\ WF_vars(Day4Next)

\* `let mut circuits: Vec<HashSet<JunctionBox>> = Vec::new();` added_pairs
\* keeps the pairs handed to add_pair_to_circuits so far, each as the set
\* of its boxes.
Day8Init ==
    /\ Day8Idle
    /\ SolverIdle
    /\ MainIdle
    /\ Day2Idle
    /\ OrderIdle
    /\ Day3Idle
    /\ Day1Idle
    /\ Day4Idle

\* A call add_pair_to_circuits(box1, box2, &mut circuits).
AddPairToCircuits ==
    /\ Cardinality(added_pairs) < MaxPairs
    /\ \E box1 \in JunctionBoxes, box2 \in JunctionBoxes :
        /\ circuits' = add_pair_to_circuits(box1, box2, circuits)
        /\ added_pairs' = added_pairs \cup {{box1, box2}}
    /\ UNCHANGED <<solverVars, mainVars, day2Vars, orderVars, day3Vars, day1Vars, day4Vars>>

Day8Next == AddPairToCircuits

Day8Spec == Day8Init /\ [][Day8Next]_vars

\* ------------------------------------------- light reachability: reference
\* What a set / a sequence of presses does to the all-off vector, stated
\* directly from the toggle rule.
Affects(b, pos) == Occurrences(buttons[b], pos) % 2 = 1

SetToggles(S) == [i \in 1..Len(lights) |-> Cardinality({b \in S : Affects(b, i - 1)}) % 2 = 1]

SeqToggles(seq) == [i \in 1..Len(lights) |-> Cardinality({j \in DOMAIN seq : Affects(seq[j], i - 1)}) % 2 = 1]

SolvingSets == {S \in SUBSET (DOMAIN buttons) : SetToggles(S) = lights}

MinOf(T) == CHOOSE m \in T : \A x \in T : m <= x

SmallestSet == MinOf({Cardinality(S) : S \in SolvingSets})

ExistsPressSeq(k) == \E seq \in [1..k -> DOMAIN buttons] : SeqToggles(seq) = lights

LightCalled == lightResult # NotCalled

\* C1: whenever some set of buttons, each pressed once, produces the target,
\* light_up returns Ok(k) with k the size of the smallest such set,
\* also when the smallest set has as many buttons as there are lights.
C1_SmallestSetReturned == (LightCalled /\ SolvingSets # {}) => lightResult = Ok(SmallestSet)

\* C2: lights [##] with buttons (0) and (1): light_up returns Ok(2).
C2_BothButtonsPressed == (LightCalled /\ lights = <<TRUE, TRUE>> /\ buttons = << <<0>>, <<1>> >>) => lightResult = Ok(2)

\* The only button affects exactly the lit positions of a target that is not all-off.
OneButtonMatchesTarget ==
    /\ Len(buttons) = 1
    /\ lights # AllOff(Len(lights))
    /\ \A i \in 1..Len(lights) : lights[i] <=> Occurrences(buttons[1], i - 1) > 0

\* C3: one button whose positions are exactly the lit positions of the
\* target: light_up returns Ok(1), for every number of lights n >= 1.
C3_SingleButtonIsOne == (LightCalled /\ OneButtonMatchesTarget) => lightResult = Ok(1)

\* C4: an all-off target (also with zero lights, also with no button)
\* gives Ok(0).
C4_AllOffIsZero == (LightCalled /\ lights = AllOff(Len(lights))) => lightResult = Ok(0)

C4_Witness == LightCalled /\ lights = AllOff(Len(lights)) /\ Len(lights) > 0 /\ Len(buttons) > 0 /\ lightResult = Ok(0)

\* C5: light_up is sound: with no solving combination it returns
\* NoSolution, and a returned Ok(n) is the length of a press sequence that
\* reaches the target while no shorter sequence does.
C5_LightUpSound ==
    LightCalled =>
        /\ SolvingSets = {} => lightResult = NoSolution
        /\ lightResult.tag = "Ok" =>
              /\ ExistsPressSeq(lightResult.value)
              /\ \A k \in 0..(lightResult.value - 1) : ~ExistsPressSeq(k)

C5_Witness == LightCalled /\ lightResult = Ok(2) /\ ExistsPressSeq(2) /\ ~ExistsPressSeq(1)

\* ------------------------------------------------ joltage matching: reference
\* Buttons of the bounded machines are non-empty, so no press count of a
\* satisfying assignment exceeds the largest target.
MaxTarget == IF Len(joltage) = 0 THEN 0 ELSE CHOOSE m \in {joltage[i] : i \in DOMAIN joltage} : \A i \in DOMAIN joltage : joltage[i] <= m

Assignments == [DOMAIN buttons -> 0..MaxTarget]

\* The accumulator after pressing button b counts[b] times, from all zero.
Accumulated(counts) == [i \in 1..Len(joltage) |-> SumSeq([b \in DOMAIN buttons |-> counts[b] * Occurrences(buttons[b], i - 1)])]

Satisfying == {counts \in Assignments : Accumulated(counts) = joltage}

RECURSIVE MinPressesFrom(_, _)

\* The least total of press counts of buttons k..Len(buttons) that adds
\* exactly `residual` (every way of choosing the count of button k that
\* overshoots nowhere, then the rest), -1 when no counts do.
MinPressesFrom(k, residual) ==
    IF k > Len(buttons)
    THEN IF \A i \in DOMAIN residual : residual[i] = 0 THEN 0 ELSE -1
    ELSE LET Left(c) == [i \in DOMAIN residual |-> residual[i] - c * Occurrences(buttons[k], i - 1)]
             counts == {c \in 0..MaxTarget : \A i \in DOMAIN residual : Left(c)[i] >= 0}
             rest == {<<c, MinPressesFrom(k + 1, Left(c))>> : c \in counts}
             totals == {p[1] + p[2] : p \in {q \in rest : q[2] >= 0}}
         IN  IF totals = {} THEN -1 ELSE MinOf(totals)

MinTotal == MinPressesFrom(1, joltage)

IsFeasible == MinTotal >= 0

JoltCalled == joltResult # NotCalled

\* The accumulator and the total of a branch of <<button, count>> pairs.
BranchAccumulated(branch) == [i \in 1..Len(joltage) |-> SumSeq([k \in DOMAIN branch |-> branch[k][2] * Occurrences(branch[k][1], i - 1)])]

BranchTotal(branch) == SumSeq([k \in DOMAIN branch |-> branch[k][2]])

\* C6: for a machine with a satisfying assignment of non-negative press
\* counts, best_joltage returns Ok(m) with m the minimum total over all
\* satisfying assignments.
C6_MinimumTotalReturned == (JoltCalled /\ IsFeasible) => joltResult = Ok(MinTotal)

C6_Witness ==
    /\ JoltCalled
    /\ MinTotal >= 2
    /\ joltResult = Ok(MinTotal)
    /\ \E counts \in Satisfying : SumSeq(counts) > MinTotal
    /\ \E counts \in Satisfying : SumSeq(counts) = MinTotal

\* C7: when best_joltage returns Ok(m), the press counts committed along
\* the returning branch sum to m and accumulate, from all zero, to the
\* joltage target at every position.
C7_BranchHitsTarget ==
    (JoltCalled /\ joltResult.tag = "Ok") =>
        /\ BranchTotal(joltBranch) = joltResult.value
        /\ BranchAccumulated(joltBranch) = joltage

C7_Witness ==
    /\ JoltCalled
    /\ joltResult.tag = "Ok"
    /\ Cardinality({k \in DOMAIN joltBranch : joltBranch[k][2] > 0}) >= 2
    /\ BranchAccumulated(joltBranch) = joltage

\* C8: best_joltage returns NoSolution exactly when no assignment of
\* non-negative press counts satisfies every position, as for target {1,0}
\* with the single button (0,1).
C8_NoSolutionIffInfeasible ==
    JoltCalled =>
        /\ joltResult = NoSolution <=> ~IsFeasible
        /\ (joltage = <<1, 0>> /\ buttons = << <<0, 1>> >>) => joltResult = NoSolution

C8_Witness == JoltCalled /\ joltage = <<1, 0>> /\ buttons = << <<0, 1>> >> /\ Satisfying = {} /\ joltResult = NoSolution

\* C9: target {3} with the button (0) gives Ok(3), the count forced on the
\* one button; target {2,2} with buttons (0), (1), (0,1) gives Ok(2), the
\* combined button pressed twice.
C9_Scenarios ==
    JoltCalled =>
        /\ (joltage = <<3>> /\ buttons = << <<0>> >>) =>
              (joltResult = Ok(3) /\ joltBranch = << << <<0>>, 3 >> >>)
        /\ (joltage = <<2, 2>> /\ buttons = << <<0>>, <<1>>, <<0, 1>> >>) =>
              (joltResult = Ok(2) /\ joltBranch = << << <<0>>, 0 >>, << <<0, 1>>, 2 >> >>)

C9_Witness == JoltCalled /\ joltage = <<2, 2>> /\ buttons = << <<0>>, <<1>>, <<0, 1>> >> /\ joltResult = Ok(2)

\* ------------------------------------------- main, part1 and part2: reference
\* What a set of buttons of machine m, each pressed once, does to all-off.
TogglesOf(m, S) == [i \in 1..Len(m.lights) |-> Cardinality({b \in S : Occurrences(m.buttons[b], i - 1) % 2 = 1}) % 2 = 1]

LightingSets(m) == {S \in SUBSET (DOMAIN m.buttons) : TogglesOf(m, S) = m.lights}

\* The fewest presses that light machine m (pressing a button twice undoes it).
LightMinimum(m) == MinOf({Cardinality(S) : S \in LightingSets(m)})

RECURSIVE JoltMinimumFrom(_, _, _)

\* The least total of press counts of buttons k.. of machine m that adds
\* exactly `residual`, -1 when no counts do.
JoltMinimumFrom(m, k, residual) ==
    IF k > Len(m.buttons)
    THEN IF \A i \in DOMAIN residual : residual[i] = 0 THEN 0 ELSE -1
    ELSE LET Left(c) == [i \in DOMAIN residual |-> residual[i] - c * Occurrences(m.buttons[k], i - 1)]
             counts == {c \in 0..SumSeq(residual) : \A i \in DOMAIN residual : Left(c)[i] >= 0}
             rest == {<<c, JoltMinimumFrom(m, k + 1, Left(c))>> : c \in counts}
             totals == {p[1] + p[2] : p \in {q \in rest : q[2] >= 0}}
         IN  IF totals = {} THEN -1 ELSE MinOf(totals)

JoltMinimum(m) == JoltMinimumFrom(m, 1, m.joltage)

\* The lines of one kind printed so far.
Printed(kind) == {k \in DOMAIN output : output[k].kind = kind}

\* The solver calls of one part, in order.
SolvedIn(part) ==
    LET OfPart(e) == e.part = part
    IN  SelectSeq(solved, OfPart)

\* The part stopped at the first machine whose solver returned NoSolution:
\* machines 0..n-1 were solved in order, only the last call failed, and no
\* total line of the part was printed.
StoppedAtFirstFailure(part) ==
    LET calls == SolvedIn(part)
    IN  /\ Len(calls) > 0
        /\ \A k \in DOMAIN calls : calls[k].index = k - 1
        /\ \A k \in DOMAIN calls : calls[k].tag = IF k = Len(calls) THEN "NoSolution" ELSE "Ok"
        /\ Printed(part) = {}

Part1Totals ==
    part1Result.tag \in {"Ok", "NoSolution"} =>
        /\ IF \A k \in DOMAIN parsed.value : LightingSets(parsed.value[k]) # {}
           THEN \E k \in DOMAIN output :
                   output[k] = PrintedLine("Part 1", 0, SumSeq([j \in DOMAIN parsed.value |-> LightMinimum(parsed.value[j])]))
           ELSE Printed("Part 1") = {}
        /\ part1Result.tag = "NoSolution" => StoppedAtFirstFailure("Part 1")

Part2Totals ==
    part2Result.tag \in {"Ok", "NoSolution"} =>
        /\ IF \A k \in DOMAIN parsed.value : JoltMinimum(parsed.value[k]) >= 0
           THEN \E k \in DOMAIN output :
                   output[k] = PrintedLine("Part 2", 0, SumSeq([j \in DOMAIN parsed.value |-> JoltMinimum(parsed.value[j])]))
           ELSE Printed("Part 2") = {}
        /\ part2Result.tag = "NoSolution" => StoppedAtFirstFailure("Part 2")

\* C11: part1 (part2) prints `Part 1: S` (`Part 2: S`) with S the sum of the
\* per-machine minima exactly when every machine is solvable; when a
\* machine returns NoSolution the part returns at the first such machine,
\* solves no machine after it and prints no total line.
C11_BatchTotals == Part1Totals /\ Part2Totals

\* The run ended with an error of from_input or of a solver.
RunFailed ==
    /\ pc = "done"
    /\ part1Result.tag \in {"InvalidInput", "NoSolution"} \/ part2Result.tag \in {"InvalidInput", "NoSolution"}

\* C12: a run that ends in an error has printed no result line: no
\* `Part 1:` / `Part 2:` line and no per-machine line.
C12_NoOutputBeforeFailure == RunFailed => (Printed("Part 1") \cup Printed("Part 2") \cup Printed("Machine")) = {}

\* ------------------------------------------------- from_input: reference
ParseCalled == parsed.tag # "NotCalled"

\* The non-blank lines of the input.
NonBlankLines ==
    LET ls == split(input, "\n")
    IN  {ls[k] : k \in {j \in DOMAIN ls : \E i \in DOMAIN ls[j] : ~IsWhitespace(ls[j][i])}}

\* A line of the shape `[lights] (indices) ... {targets}`: the pattern
\* matches the line from its first to its last character.
HasMachineShape(line) ==
    /\ re_match_at(line, 1) # None
    /\ re_match_at(line, 1)[1].end = Len(line)

\* C13: from_input returns an error whenever some non-blank line of the
\* input does not have the machine shape; no such line is skipped while the
\* other machines are returned.
C13_MalformedLineIsError == (ParseCalled /\ \E line \in NonBlankLines : ~HasMachineShape(line)) => parsed.tag = "InvalidInput"

\* A decimal number: one or more digits.
IsNumber(s) == Len(s) > 0 /\ \A i \in DOMAIN s : IsDigit(s[i])

\* A button token of fewer than two characters, or an index between its
\* first and last character that is no number.
BadButtonToken(s) ==
    \/ Len(s) < 2
    \/ \E piece \in {split(SubSeq(s, 2, Len(s) - 1), ",")[k] : k \in DOMAIN split(SubSeq(s, 2, Len(s) - 1), ",")} : ~IsNumber(piece)

\* A match with a bad button token or a joltage token that is no number.
HasBadToken(c) ==
    \/ \E k \in DOMAIN split(c.raw_buttons, " ") : BadButtonToken(split(c.raw_buttons, " ")[k])
    \/ \E k \in DOMAIN split(c.raw_joltages, ",") : ~IsNumber(split(c.raw_joltages, ",")[k])

\* The matches of the pattern in the input, in order.
MatchedLines == captures_iter(input, 1)

\* C14: when a line matched as a machine has a button token shorter than
\* two characters, or a button index or joltage token that is no
\* non-negative integer, from_input returns Err(InvalidInput) and so no
\* machine, also when earlier lines parsed.
C14_BadTokenIsInvalidInput == (ParseCalled /\ \E k \in DOMAIN MatchedLines : HasBadToken(MatchedLines[k])) => parsed.tag = "InvalidInput"

C14_Witness ==
    /\ ParseCalled
    /\ Len(MatchedLines) >= 2
    /\ ~HasBadToken(MatchedLines[1])
    /\ HasBadToken(MatchedLines[2])
    /\ parsed.tag = "InvalidInput"

\* C15: every Machine from_input returns keeps the index invariant: each
\* index of each button is below lights.len() and below joltage.len().
C15_IndexInvariant ==
    (ParseCalled /\ parsed.tag = "Ok") =>
        \A k \in DOMAIN parsed.value :
            \A b \in DOMAIN parsed.value[k].buttons :
                \A i \in DOMAIN parsed.value[k].buttons[b] :
                    /\ parsed.value[k].buttons[b][i] < Len(parsed.value[k].lights)
                    /\ parsed.value[k].buttons[b][i] < Len(parsed.value[k].joltage)

\* C16: every Machine from_input returns has one joltage target per light
\* position.
C16_OneTargetPerLight ==
    (ParseCalled /\ parsed.tag = "Ok") =>
        \A k \in DOMAIN parsed.value : Len(parsed.value[k].joltage) = Len(parsed.value[k].lights)

\* ------------------------------------------------ is_invalid_value: reference
\* The decimal digits of v are a block of Len(v) / r digits written r times.
IsRepetition(v, r) ==
    /\ Len(v) % r = 0
    /\ \A k \in DOMAIN v : v[k] = v[((k - 1) % (Len(v) \div r)) + 1]

\* C17: for min >= 2 and v >= 1, is_invalid_value(v, min, max) is true
\* exactly when the decimal digits of v are some block repeated r times
\* with min <= r <= max (so never for a single digit).
C17_InvalidIffRepeatedBlock ==
    (invalidResult # None /\ min_repetitions >= 2 /\ value # <<0>>) =>
        (invalidResult = Some(TRUE) <=>
            \E r \in 1..Len(value) : min_repetitions <= r /\ r <= max_repetitions /\ IsRepetition(value, r))

\* --------------------------------------------- search_joltage calls: reference
\* The accumulator is above the target at some position.
Overshoots(acc) == \E i \in 1..Len(joltage) : acc[i] > joltage[i]

\* The call returned None at the cost check: it pushed no button and made
\* no recursive call.
PrunedCall(c) == c.outcome = "Pruned" /\ c.value = None /\ c.tried = << >> /\ c.passed = {}

\* C18: every call whose committed presses plus the amount required at the
\* selected position meet or exceed the best total so far
\* (presses + max_presses >= least_presses) is pruned.
C18_PrunedWhenMeetsBest == \A c \in joltCalls : (c.presses + c.sel.max_presses >= c.least_presses) => PrunedCall(c)

\* C18 as the code has it: a call is pruned exactly when presses +
\* max_presses exceeds the best total so far; a call that only meets it goes
\* on to push buttons or to evaluate its accumulator.
C18_PrunedWhenExceedsBest == \A c \in joltCalls : (c.presses + c.sel.max_presses > c.least_presses) <=> PrunedCall(c)

C18_Witness ==
    \E c \in joltCalls :
        /\ c.least_presses < UsizeMax
        /\ c.presses + c.sel.max_presses > c.least_presses
        /\ Len(c.sel.selected) > 0
        /\ PrunedCall(c)

\* C19: a call entered with an accumulator that overshoots selects no
\* button, pushes nothing and does not recurse, and no accumulator that
\* overshoots is passed to a recursive call.
C19_OvershootStopsBranch ==
    \A c \in joltCalls :
        /\ Overshoots(c.current) => (Len(c.sel.selected) = 0 /\ c.tried = << >> /\ c.passed = {})
        /\ \A acc \in c.passed : ~Overshoots(acc)

\* C19 as the code has it: the distribution loop passes no accumulator
\* that overshoots to a recursive call, and every call entered with one (the
\* one-button shortcut can pass one) returns None.
C19_OvershootNeverReturned ==
    \A c \in joltCalls :
        /\ c.outcome = "Loop" => \A acc \in c.passed : ~Overshoots(acc)
        /\ Overshoots(c.current) => c.value = None

C19_Witness ==
    \E c \in joltCalls :
        /\ c.outcome = "Shortcut"
        /\ \E acc \in c.passed :
              /\ Overshoots(acc)
              /\ \E d \in joltCalls : d.current = acc /\ d.presses > c.presses /\ d.value = None

\* The buttons of btns that touch pos and no position already at or above
\* its target.
CandidatesAt(btns, acc, pos) ==
    {b \in DOMAIN btns :
        /\ \E k \in DOMAIN btns[b] : btns[b][k] = pos
        /\ \A k \in DOMAIN btns[b] : acc[btns[b][k] + 1] < joltage[btns[b][k] + 1]}

\* The positions with at least one candidate button.
OpenPositions(btns, acc) == {pos \in 0..(Len(joltage) - 1) : CandidatesAt(btns, acc, pos) # {}}

\* C20: select_buttons selects a position below its target that has the
\* least positive number of candidate buttons, the lowest such position on
\* ties, and returns target - current > 0 as the amount (the assertion
\* holds); with no such position it returns no button and amount 0.
C20_LeastOpenPositionSelected ==
    \A c \in joltCalls :
        LET open == OpenPositions(c.btns, c.current)
            Count(pos) == Cardinality(CandidatesAt(c.btns, c.current, pos))
        IN  IF open = {}
            THEN c.sel.selected = << >> /\ c.sel.max_presses = 0
            ELSE /\ c.sel.position \in open
                 /\ c.current[c.sel.position + 1] < joltage[c.sel.position + 1]
                 /\ \A pos \in open : Count(c.sel.position) <= Count(pos)
                 /\ \A pos \in open : Count(pos) = Count(c.sel.position) => c.sel.position <= pos
                 /\ c.sel.max_presses = joltage[c.sel.position + 1] - c.current[c.sel.position + 1]
                 /\ c.sel.max_presses > 0
                 /\ c.sel.assert_ok
                 /\ Len(c.sel.selected) > 0

C20_Witness ==
    /\ \E c \in joltCalls :
          /\ c.sel.position > 0
          /\ c.sel.position < UsizeMax
          /\ CandidatesAt(c.btns, c.current, 0) # {}
    /\ \E c \in joltCalls :
          /\ c.sel.position < UsizeMax
          /\ c.current[c.sel.position + 1] > 0
          /\ c.sel.max_presses = joltage[c.sel.position + 1] - c.current[c.sel.position + 1]
    /\ \E c \in joltCalls : OpenPositions(c.btns, c.current) = {} /\ c.sel.selected = << >>

\* ------------------------------------------- search_joltage branches: reference
\* The button touches a position whose accumulator has reached its target.
TouchesSatisfied(button, acc) == \E k \in DOMAIN button : acc[button[k] + 1] >= joltage[button[k] + 1]

\* C21: a button that affects a position whose accumulator has reached its
\* target is never among the buttons select_buttons selects and never gets
\* a non-zero press count in a distribution.
C21_SatisfiedButtonsExcluded ==
    \A c \in joltCalls : \A k \in DOMAIN c.sel.selected :
        /\ ~TouchesSatisfied(c.sel.selected[k], c.current)
        /\ \A t \in DOMAIN c.tried : TouchesSatisfied(c.sel.selected[k], c.current) => c.tried[t][k] = 0

\* The k-tuples of non-negative integers that sum to n.
Distributions(k, n) == {t \in [1..k -> 0..n] : SumSeq(t) = n}

\* The calls of search_joltage that ran the distribution loop.
LoopCalls == {c \in joltCalls : c.outcome = "Loop"}

\* C22: the distribution loop of search_joltage, run for k >= 2 selected
\* buttons and an amount n >= 1, visits every k-tuple of non-negative
\* integers that sums to n exactly once and then stops; every tuple it
\* hands to next_combination sums to n, so it has a non-zero entry.
C22_EveryDistributionOnce ==
    \A c \in LoopCalls :
        LET k == Len(c.sel.selected)
            n == c.sel.max_presses
        IN  /\ k >= 2
            /\ n >= 1
            /\ \A i \in DOMAIN c.tried : Len(c.tried[i]) = k /\ SumSeq(c.tried[i]) = n /\ rposition_nonzero(c.tried[i]) > 0
            /\ \A i, j \in DOMAIN c.tried : c.tried[i] = c.tried[j] => i = j
            /\ {c.tried[i] : i \in DOMAIN c.tried} = Distributions(k, n)

C22_Witness ==
    \E c \in LoopCalls :
        /\ Len(c.sel.selected) = 3
        /\ c.sel.max_presses = 2
        /\ Len(c.tried) = 6
        /\ c.tried[1] = <<0, 0, 2>>
        /\ c.tried[6] = <<2, 0, 0>>

\* ------------------------------------------------------ termination: reference
\* s is t with some elements left out, in the same order.
IsSubList(s, t) ==
    \E f \in [1..Len(s) -> 1..Len(t)] :
        /\ \A i, j \in 1..Len(s) : i < j => f[i] < f[j]
        /\ \A i \in 1..Len(s) : s[i] = t[f[i]]

\* The call of search_joltage made by best_joltage.
IsRootCall(d) == d.current = Zeros(Len(joltage)) /\ d.btns = buttons /\ d.presses = 0 /\ d.least_presses = UsizeMax

\* Call d was made by call c.
IsCalledBy(d, c) == d.current \in c.passed /\ d.btns = c.sel.remaining /\ d.presses = c.presses + c.sel.max_presses

\* C23: the calls of light_up and best_joltage terminate: every call of
\* light_up_step is at a level from 1 to lights.len() and not beyond its
\* bound; every recursive call of search_joltage gets a strict sub-list of
\* its caller's buttons (the selected ones removed); every distribution
\* loop stops after at most as many passes as there are distributions.
C23_SearchesTerminate ==
    /\ \A c \in lightCalls : 1 <= c.step /\ c.step <= c.max_steps /\ c.max_steps <= Len(lights)
    /\ \A c \in lightCalls : c.step = c.max_steps => c.value = None
    /\ \A d \in joltCalls :
          \/ IsRootCall(d)
          \/ \E c \in joltCalls :
                /\ IsCalledBy(d, c)
                /\ Len(c.sel.selected) >= 1
                /\ Len(d.btns) = Len(c.btns) - Len(c.sel.selected)
                /\ IsSubList(d.btns, c.btns)
    /\ \A c \in joltCalls :
          /\ c.passed # {} => (Len(c.sel.remaining) < Len(c.btns) /\ IsSubList(c.sel.remaining, c.btns))
          /\ Len(c.tried) <= Cardinality(Distributions(Len(c.sel.selected), c.sel.max_presses))

C23_Witness ==
    /\ LightCalled
    /\ JoltCalled
    /\ \E c \in lightCalls : c.step = Len(lights) /\ c.step >= 2 /\ c.value = None
    /\ \E c, d \in joltCalls :
          /\ IsCalledBy(d, c)
          /\ Len(d.btns) < Len(c.btns)
          /\ d.outcome = "Loop"
          /\ Len(d.tried) >= 2

\* ------------------------------------------------------- button order: reference
\* The solvers have run on the machine with its buttons in another order
\* than firstButtons.
Reordered == firstLight # NotCalled

StepValuesWithinBounds ==
    /\ \A c \in lightCalls : c.value # None => (c.step <= c.value[1] /\ c.value[1] < c.max_steps)
    /\ \A c \in lightCalls : c.max_steps <= c.caller_max_steps /\ c.caller_max_steps <= Len(lights)

\* C25: every value v returned by light_up_step(lights, step, max_steps)
\* satisfies step <= v < max_steps and the bound passed to deeper calls
\* never increases; so light_up never returns a press count greater than
\* or equal to lights.len().
C25_CountBelowLen ==
    /\ StepValuesWithinBounds
    /\ (LightCalled /\ lightResult.tag = "Ok") => lightResult.value < Len(lights)

\* C25 for the machines it is true of: as above, and light_up never
\* returns a press count that reaches lights.len() for a machine that has
\* lights; for a machine without lights it returns Ok(0), which equals
\* lights.len().
C25_CountBelowLenWithLights ==
    /\ StepValuesWithinBounds
    /\ (LightCalled /\ lightResult.tag = "Ok" /\ Len(lights) > 0) => lightResult.value < Len(lights)
    /\ (LightCalled /\ Len(lights) = 0) => lightResult = Ok(0)

C25_Witness ==
    /\ LightCalled
    /\ lightResult = Ok(2)
    /\ Len(lights) = 3
    /\ \E c \in lightCalls : c.max_steps < c.caller_max_steps /\ c.value = None
    /\ \E c \in lightCalls : c.value = Some(2) /\ c.step = 2 /\ c.max_steps = 3

\* ------------------------------------------------------ least_presses: reference
\* Call d was made by call c for its distribution number t.
IsCallFor(d, c, t) == d.committed = Commit(c.committed, c.sel.selected, c.tried[t])

\* The press counts of the branches on which the search met an accumulator
\* equal to the targets: at a call without buttons to select, or in a pass
\* of a distribution loop.
FoundBranches ==
    {c.committed : c \in {d \in joltCalls : d.outcome = "Leaf" /\ d.current = joltage}}
        \cup UNION {{Commit(c.committed, c.sel.selected, c.tried[t]) :
                        t \in {u \in DOMAIN c.tried : push_all(c.current, c.sel.selected, c.tried[u], 1) = joltage}} :
                    c \in LoopCalls}

\* The totals of the assignments found that hit every target exactly.
FoundTotals == {BranchTotal(b) : b \in {f \in FoundBranches : BranchAccumulated(f) = joltage}}

\* C26: during best_joltage *least_presses never increases (over a call,
\* from a caller to its callee and back, and from one callee to the next);
\* when it is not usize::MAX it is the total of an assignment the search
\* found whose accumulator equals the targets; and the value best_joltage
\* returns is at most every value *least_presses held.
C26_LeastPressesBound ==
    /\ \A c \in joltCalls : c.least_after <= c.least_presses
    /\ \A c, d \in joltCalls : \A t \in DOMAIN c.tried :
          IsCallFor(d, c, t) =>
              /\ d.least_presses <= c.least_presses
              /\ c.least_after <= d.least_after
              /\ \A e \in joltCalls : \A u \in DOMAIN c.tried :
                    (u > t /\ IsCallFor(e, c, u)) => e.least_presses <= d.least_after
    /\ \A c \in joltCalls : \A least \in {c.least_presses, c.least_after} :
          least # UsizeMax => least \in FoundTotals
    /\ joltResult.tag = "Ok" =>
          \A c \in joltCalls : joltResult.value <= c.least_presses /\ joltResult.value <= c.least_after

C26_Witness ==
    /\ joltResult.tag = "Ok"
    /\ \E c \in LoopCalls : \E d, e \in joltCalls : \E t, u \in DOMAIN c.tried :
          /\ c.least_presses = UsizeMax
          /\ t < u
          /\ IsCallFor(d, c, t)
          /\ IsCallFor(e, c, u)
          /\ d.least_presses = UsizeMax
          /\ e.least_presses < UsizeMax
          /\ e.least_presses \in FoundTotals
          /\ c.least_after < e.least_presses
          /\ joltResult.value = c.least_after

\* ------------------------------------------------------------ day3: reference
RECURSIVE NumberOf(_)

\* The number a sequence of digits writes.
NumberOf(ds) == IF Len(ds) = 0 THEN 0 ELSE 10 * NumberOf(SubSeq(ds, 1, Len(ds) - 1)) + ds[Len(ds)]

\* The number written by the digits of bank at the indexes S, in their
\* order in the bank.
NumberAt(bank, S) == NumberOf(Vec([k \in 1..Cardinality(S) |-> bank[SortedSeq(S)[k]]]))

\* The numbers formed by num_digits digits of the bank.
NumbersOf(bank, num_digits) == {NumberAt(bank, S) : S \in {T \in SUBSET (DOMAIN bank) : Cardinality(T) = num_digits}}

\* The largest of them.
LargestNumber(bank, num_digits) == CHOOSE m \in NumbersOf(bank, num_digits) : \A x \in NumbersOf(bank, num_digits) : x <= m

\* C27: for a bank of decimal digits and 1 <= num_digits <= bank.len(),
\* max_num_iterative and max_num_recursive return the same value, the
\* largest number formed by num_digits digits of the bank in their order.
C27_IterativeIsRecursive ==
    /\ iterativeMax # None => iterativeMax = Some(LargestNumber(batteryBank, numDigits))
    /\ recursiveMax # None => recursiveMax = Some(LargestNumber(batteryBank, numDigits))
    /\ (iterativeMax # None /\ recursiveMax # None) => iterativeMax = recursiveMax

C27_Witness ==
    /\ batteryBank = <<1, 9, 0, 9, 1>>
    /\ numDigits = 3
    /\ iterativeMax = Some(991)
    /\ recursiveMax = Some(991)

\* ------------------------------------------------------------ day1: reference
\* Where the dial points after k clicks of a rotation from dial.
DialAfter(dial, letter, k) == IF letter = "L" THEN (dial - k) % 100 ELSE (dial + k) % 100

\* The clicks of a rotation on which the dial points at 0.
ClicksAtZero(dial, letter, clicks) == Cardinality({k \in 1..clicks : DialAfter(dial, letter, k) = 0})

\* C28: from position 50, after each instruction `L n` / `R n` (n >= 0)
\* the dial is in 0..99 and the zero count has grown by the number of
\* clicks of that rotation on which the dial pointed at 0.
C28_ZeroesCountClicks ==
    [][/\ number' \in 0..99
       /\ number' = DialAfter(number, instruction'[1], instruction'[2])
       /\ zeroes' = zeroes + ClicksAtZero(number, instruction'[1], instruction'[2])]_day1Vars

\* ------------------------------------------------------------ day4: reference
\* The rolls of a map, as (x, y) pairs.
RollsOf(m) == {p \in (0..(m.width - 1)) \X (0..(m.height - 1)) : m.cells[p[1] + p[2] * m.width + 1] = "Roll"}

\* The rolls of a map that have fewer than 4 rolls among their 8 neighbours.
LooseRolls(m) ==
    {p \in RollsOf(m) :
        Cardinality({q \in RollsOf(m) : q # p /\ q[1] - p[1] \in {0 - 1, 0, 1} /\ q[2] - p[2] \in {0 - 1, 0, 1}}) < 4}

\* A round removes exactly the rolls that were loose when it began.
RoundRemovesLoose ==
    /\ RollsOf(map') = RollsOf(map) \ LooseRolls(map)
    /\ moved' = moved + Cardinality(LooseRolls(map))

\* C29: on every rectangular grid the removal loop of part2 ends; each
\* round removes exactly the rolls with fewer than 4 adjacent rolls in the
\* grid as it was when the round began; at the end no roll left has fewer
\* than 4 adjacent rolls, and the count printed is the number of rolls of
\* the initial grid minus the number left.
C29_RemovalLoop ==
    /\ [][initial_map # None /\ map' # map => RoundRemovesLoose]_day4Vars
    /\ [](reported # None =>
            /\ LooseRolls(map) = {}
            /\ reported = Some(Cardinality(RollsOf(initial_map[1])) - Cardinality(RollsOf(map))))
    /\ <>(reported # None)

C29_Witness ==
    /\ reported # None
    /\ rounds >= 1
    /\ RollsOf(map) # {}
    /\ reported = Some(Cardinality(RollsOf(initial_map[1])) - Cardinality(RollsOf(map)))

\* ----------------------------------------------------------- day8: reference
\* The boxes reached from the boxes of S along the pairs of E.
RECURSIVE ReachedFrom(_, _)
ReachedFrom(S, E) ==
    LET further == S \cup UNION {e \in E : e \cap S # {}}
    IN  IF further = S THEN S ELSE ReachedFrom(further, E)

\* Two boxes are connected through the pairs added so far.
Connected(a, b) == \E e \in added_pairs : a \in e /\ b \in ReachedFrom(e, added_pairs)

SameCircuit(cs, a, b) == \E i \in DOMAIN cs : a \in cs[i] /\ b \in cs[i]

CircuitsPartition ==
    /\ \A i \in DOMAIN circuits : circuits[i] # {}
    /\ \A i, j \in DOMAIN circuits : i # j => circuits[i] \cap circuits[j] = {}
    /\ \A a, b \in JunctionBoxes : SameCircuit(circuits, a, b) <=> Connected(a, b)

\* A step that changes the circuits added a pair whose boxes were not in
\* one circuit.
ChangeJoinsApart ==
    circuits' # circuits =>
        \E e \in added_pairs' \ added_pairs : \A a, b \in e : a # b => ~SameCircuit(circuits, a, b)

\* C30: after any sequence of add_pair_to_circuits calls from an empty
\* list the circuits are non-empty and pairwise disjoint, two junction
\* boxes are in the same circuit exactly when they are connected through
\* the pairs added so far, and adding a pair whose boxes are already in
\* the same circuit changes nothing.
C30_CircuitsAreComponents ==
    /\ []CircuitsPartition
    /\ [][ChangeJoinsApart]_day8Vars

\* One circuit of four boxes after four pairs, two of them apart from each
\* other: one pair joined nothing new.
C30_Witness ==
    /\ Len(circuits) = 1
    /\ Cardinality(circuits[1]) = 4
    /\ Cardinality(added_pairs) = 4
    /\ \E e1 \in added_pairs, e2 \in added_pairs : Cardinality(e1) = 2 /\ Cardinality(e2) = 2 /\ e1 \cap e2 = {}

====
